---- MODULE Spec2Model ----
(***************************************************************************)
(* TelusGuardAI network impact analyzer: the retrying model client         *)
(* (services/ai_client.py), the TTL cache (utils/cache.py) and the         *)
(* three-stage analysis pipeline (orchestrator.py and agents/).            *)
(*                                                                         *)
(* Confidence values are kept in hundredths (0.65 is 65). Times are in     *)
(* seconds.                                                                *)
(***************************************************************************)
EXTENDS Integers, Sequences, FiniteSets, TLC

(***************************************************************************)
(* Part 1. AIModelClient.call_model: the retry loop.                       *)
(***************************************************************************)

VARIABLES
    cm_pc,          \* position of call_model: idle, attempt, sleep, returned, raised
    max_retries,    \* the max_retries argument
    attempt,        \* loop variable of `for attempt in range(max_retries)`
    any_timeout,    \* the any_timeout flag
    outcomes,       \* [kind, text] of every attempt made so far, in order
    gaps,           \* gaps[i]: backoff slept after attempt i (0 when none)
    cm_result,      \* text returned ("" is the soft failure)
    cm_error,       \* exception that left call_model, "none" when none
    requests        \* HTTP requests sent by this call

\* Largest max_retries argument explored (the default of the code is 3).
MaxRetries == 3

\* Non-empty texts a successful attempt may carry.
Texts == {"text_a", "text_b"}

\* What one attempt (one session.post) can end in.
FailureKinds == {"status", "empty", "timeout", "client_error", "other_error"}
AttemptKinds == FailureKinds \cup {"ok", "cancelled"}

RECURSIVE Pow2(_)
Pow2(n) == IF n = 0 THEN 1 ELSE 2 * Pow2(n - 1)

\* backoff = 2 ** attempt
Backoff(a) == Pow2(a)

\* Does the handler of this failure kind sleep before the next attempt?
\* Only the three except-branches do; the non-200 branch and the empty-text
\* branch fall through to the next loop iteration.
SleepsAfterLastAttemptToo(kind, a, mr) ==
    kind \in {"timeout", "client_error", "other_error"}
SleepsAfterEmptyToo(kind, a, mr) ==
    /\ kind \in {"timeout", "client_error", "other_error", "empty"}
    /\ a < mr - 1
SleepsAfter(kind, a, mr) ==
    /\ kind \in {"timeout", "client_error", "other_error"}
    /\ a < mr - 1

\* The code after the for loop: raise ModelTimeoutError or return "".
ExhaustedNeverRaises(anyTimeout) == "none"
ExhaustedError(anyTimeout) ==
    IF anyTimeout THEN "ModelTimeoutError" ELSE "none"

\* What leaves call_model when the task is cancelled: the first except
\* branch re-raises it, and a cancellation raised inside the sleep of an
\* except branch is not caught by the other branches of the same try.
CancellationAsTimeout == "ModelTimeoutError"
CancellationRaised == "CancelledError"

cmVars == <<cm_pc, max_retries, attempt, any_timeout, outcomes, gaps,
            cm_result, cm_error, requests>>

(***************************************************************************)
(* State of Part 2: the cache and one analyze call at a time.              *)
(***************************************************************************)
VARIABLES
    cache,              \* SimpleCache.cache: key -> [data, timestamp]
    now,                \* time.time()
    pc,                 \* position of analyze: idle, stage1, stage2, stage3,
                        \* returned, failed
    question,           \* the question argument
    options,            \* the options argument
    event_metadata,     \* result of Stage 1
    intelligence_data,  \* result of Stage 2
    result,             \* the AnalysisResult returned
    error,              \* exception that left analyze, "none" when none
    cache_hit,          \* history: the call returned at the cache check
    model_calls,        \* history: model calls made by this analyze call
    search_calls,       \* history: evidence searches made by this call
    weather_calls,      \* history: weather provider fetches made by this call
    stage1_path,        \* history: Stage 1 ended "parsed" or "fallback"
    stage3_path,        \* history: Stage 3 ended "parsed" or "fallback"
    prev,               \* history: the call before this one
    calls               \* history: analyze calls started so far

plVars == <<cache, now, pc, question, options, event_metadata,
            intelligence_data, result, error, cache_hit, model_calls,
            search_calls, weather_calls, stage1_path, stage3_path, prev, calls>>

(***************************************************************************)
(* State of the requests that use the cache at the same time: the server   *)
(* runs with threaded=True, one thread per request, all on the one         *)
(* SimpleCache instance.                                                   *)
(***************************************************************************)
VARIABLES
    threads     \* per thread: the SimpleCache method it runs and where it is

ccVars == <<threads>>

(***************************************************************************)
(* The helper functions checked on their own: which one was applied, to    *)
(* what, and what it returned.                                             *)
(***************************************************************************)
VARIABLES
    applied     \* [fn, input, output] of the last application

fnVars == <<applied>>

(***************************************************************************)
(* Stage 2 task by task: the evidence fetches and the weather branch that  *)
(* gather_intelligence runs concurrently.                                  *)
(***************************************************************************)
VARIABLES
    gather      \* [phase, fetched, weather, reading] of gather_intelligence

gaVars == <<gather>>

\* The HTTP boundary (app.py): the request being handled by
\* POST /api/analyze-network-impact and the response it was given.
VARIABLES
    http
hpVars == <<http>>

\* services/incident_engine.py: IncidentEngine.active, tower_id -> incident.
VARIABLES
    active
ieVars == <<active>>

vars == <<cmVars, plVars, ccVars, fnVars, gaVars, hpVars, ieVars>>

ClientInit ==
    /\ cm_pc = "idle"
    /\ max_retries = 0
    /\ attempt = 0
    /\ any_timeout = FALSE
    /\ outcomes = <<>>
    /\ gaps = <<>>
    /\ cm_result = ""
    /\ cm_error = "none"
    /\ requests = 0

\* call_model(..., max_retries=mr): set-up up to the first loop iteration.
CallModel(mr) ==
    /\ cm_pc \in {"idle", "returned", "raised"}
    /\ cm_pc' = "attempt"
    /\ max_retries' = mr
    /\ attempt' = 0
    /\ any_timeout' = FALSE
    /\ outcomes' = <<>>
    /\ gaps' = <<>>
    /\ cm_result' = ""
    /\ cm_error' = "none"
    /\ requests' = 0
    /\ UNCHANGED <<plVars, ccVars, fnVars, gaVars, hpVars, ieVars>>

\* Leaving the loop body after a failed attempt that did not sleep, or after
\* the sleep: next iteration, or the code after the loop.
AfterIteration(anyTimeout) ==
    IF attempt + 1 < max_retries
    THEN /\ cm_pc' = "attempt"
         /\ attempt' = attempt + 1
         /\ cm_error' = "none"
    ELSE /\ attempt' = attempt
         /\ cm_error' = ExhaustedError(anyTimeout)
         /\ cm_pc' = IF ExhaustedError(anyTimeout) = "none"
                     THEN "returned" ELSE "raised"

\* One loop iteration: the request is sent and ends in `kind`.
Attempt(kind, text) ==
    /\ cm_pc = "attempt"
    /\ requests' = requests + 1
    /\ outcomes' = Append(outcomes, [kind |-> kind, text |-> text])
    /\ UNCHANGED <<max_retries, plVars, ccVars, fnVars, gaVars, hpVars, ieVars>>
    /\ CASE kind = "ok" ->
              /\ cm_pc' = "returned"
              /\ cm_result' = text
              /\ gaps' = Append(gaps, 0)
              /\ UNCHANGED <<attempt, any_timeout, cm_error>>
         [] kind = "cancelled" ->
              /\ cm_pc' = "raised"
              /\ cm_error' = CancellationRaised
              /\ gaps' = Append(gaps, 0)
              /\ UNCHANGED <<attempt, any_timeout, cm_result>>
         [] OTHER ->
              /\ any_timeout' = (any_timeout \/ kind = "timeout")
              /\ UNCHANGED cm_result
              /\ IF SleepsAfter(kind, attempt, max_retries)
                 THEN /\ cm_pc' = "sleep"
                      /\ gaps' = Append(gaps, Backoff(attempt))
                      /\ UNCHANGED <<attempt, cm_error>>
                 ELSE /\ gaps' = Append(gaps, 0)
                      /\ AfterIteration(any_timeout')

\* await asyncio.sleep(backoff) completes.
SleepDone ==
    /\ cm_pc = "sleep"
    /\ AfterIteration(any_timeout)
    /\ UNCHANGED <<max_retries, any_timeout, outcomes, gaps, cm_result, requests,
                   plVars, ccVars, fnVars, gaVars, hpVars, ieVars>>

\* The task is cancelled while it waits in asyncio.sleep(backoff): the
\* CancelledError is raised inside the except-branch and leaves call_model.
SleepCancelled ==
    /\ cm_pc = "sleep"
    /\ cm_pc' = "raised"
    /\ cm_error' = CancellationRaised
    /\ UNCHANGED <<max_retries, attempt, any_timeout, outcomes, gaps, cm_result,
                   requests, plVars,
                   ccVars, fnVars, gaVars, hpVars, ieVars>>

(***************************************************************************)
(* Part 2. utils/cache.py: SimpleCache.                                    *)
(***************************************************************************)

\* Config.CACHE_TTL
CACHE_TTL == 300

\* Python's None.
NoneValue == [none |-> TRUE]

\* `if value:` for the values the cache holds (an AnalysisResult instance
\* and a non-empty weather dict are both truthy; None is not).
Truthy(v) == v # NoneValue

\* The entry of key is present and `time.time() - timestamp < self.ttl`.
CacheLiveFlipped(c, key, t) ==
    /\ key \in DOMAIN c
    /\ t - c[key].timestamp > CACHE_TTL
CacheLive(c, key, t) ==
    /\ key \in DOMAIN c
    /\ t - c[key].timestamp < CACHE_TTL

\* SimpleCache.get: the value returned.
CacheGet(c, key, t) ==
    IF CacheLive(c, key, t) THEN c[key].data ELSE NoneValue

\* SimpleCache.get: the dict afterwards (an expired entry is deleted).
CacheAfterGetKeepsExpired(c, key, t) == c
CacheAfterGet(c, key, t) ==
    IF key \in DOMAIN c /\ ~CacheLive(c, key, t)
    THEN [k \in DOMAIN c \ {key} |-> c[k]]
    ELSE c

\* SimpleCache.set
CacheSet(c, key, value, t) ==
    [k \in DOMAIN c \cup {key} |->
        IF k = key THEN [data |-> value, timestamp |-> t] ELSE c[k]]

\* SimpleCache.delete: the dict afterwards, and the value returned.
CacheDelete(c, key) == [k \in DOMAIN c \ {key} |-> c[k]]
CacheDeleteReturns(c, key) == [bool |-> key \in DOMAIN c]

\* SimpleCache.clear
CacheClear(c) == <<>>

(***************************************************************************)
(* Part 3. Values exchanged with the models.                               *)
(*                                                                         *)
(* A JSON scalar is a record [t, s, n]: t is its type, s its string        *)
(* value, n its number. "absent" stands for a key the dict does not have.  *)
(***************************************************************************)
JStr(str) == [t |-> "str", s |-> str, n |-> 0]
JNum(num) == [t |-> "num", s |-> "", n |-> num]
JNull == [t |-> "null", s |-> "", n |-> 0]
JAbsent == [t |-> "absent", s |-> "", n |-> 0]

\* dict.get(key, default)
JGet(v, default) == IF v.t = "absent" THEN default ELSE v

\* str(value) as an f-string prints it
JText(v) ==
    CASE v.t = "str" -> v.s
      [] v.t = "num" -> ToString(v.n)
      [] OTHER -> "None"

\* Config.MAX_SEARCH_QUERIES
MAX_SEARCH_QUERIES == 5
\* Config.MAX_AREAS_RETURNED
MAX_AREAS_RETURNED == 10
\* Config.MIN_CONFIDENCE_THRESHOLD, 0.65
MIN_CONFIDENCE_THRESHOLD == 65

\* seq[:n] of Python for an integer n (a negative n counts from the end).
Min(a, b) == IF a < b THEN a ELSE b
Max(a, b) == IF a > b THEN a ELSE b
PySliceTo(seq, n) ==
    IF n >= 0
    THEN SubSeq(seq, 1, Min(n, Len(seq)))
    ELSE SubSeq(seq, 1, Max(Len(seq) + n, 0))

\* A question: its text, its whitespace-separated words, and the set of
\* vocabulary words that occur in question.lower() as substrings.
QIceStorm ==
    [text |-> "What areas were affected by the ice storm in Toronto yesterday?",
     words |-> <<"What", "areas", "were", "affected", "by", "the", "ice",
                 "storm", "in", "Toronto", "yesterday?">>,
     has |-> {"ice", "storm", "toronto", "yesterday"}]
QTower ==
    [text |-> "Which Vancouver neighbourhoods lost the cell tower signal?",
     words |-> <<"Which", "Vancouver", "neighbourhoods", "lost", "the",
                 "cell", "tower", "signal?">>,
     has |-> {"tower", "vancouver"}]
Questions == {QIceStorm, QTower}

\* The options dict of a request: a record holding only the keys given.
NoOptions == <<>>
OptionsSet ==
    { NoOptions,
      [min_confidence |-> 50],
      [min_confidence |-> 90, max_areas |-> 1],
      [include_reasoning |-> FALSE] }

\* options.get(key, default)
OptGet(opts, key, default) ==
    IF key \in DOMAIN opts THEN opts[key] ELSE default

(***************************************************************************)
(* Part 4. Stage 1: agents/event_intelligence.py.                          *)
(*                                                                         *)
(* A model output is described by what re.search(r'\{.*\}') and            *)
(* json.loads make of it: span is "none" when the text holds no {...}      *)
(* span (the empty string of a soft failure included), "invalid" when the  *)
(* span is not JSON, "object" when it parses to a dict. For a dict, keys   *)
(* is the set of required keys it has, events_is_list / queries_is_list    *)
(* tell whether the values are JSON arrays (else null).                    *)
(***************************************************************************)

\* One entry of "events": a dict with these keys, or something that is not
\* a dict (a string, a number).
EventEntry(isDict, eventType, location, timeframe) ==
    [is_dict |-> isDict, event_type |-> eventType,
     primary_location |-> location, timeframe |-> timeframe]

EvToronto ==
    EventEntry(TRUE, JStr("weather_related_outage"), JStr("Toronto"),
               JStr("yesterday"))
EvVancouver ==
    EventEntry(TRUE, JStr("equipment_failure"), JStr("Vancouver"), JAbsent)
EvNullType == EventEntry(TRUE, JNull, JStr("Toronto"), JStr("today"))
EvNotADict == EventEntry(FALSE, JAbsent, JAbsent, JAbsent)

Stage1Output(raw, span, keys, evIsList, events, qIsList, queries, weather) ==
    [raw |-> raw, span |-> span, keys |-> keys,
     events_is_list |-> evIsList, events |-> events,
     queries_is_list |-> qIsList, search_queries |-> queries,
     requires_weather_data |-> weather]

BothKeys == {"events", "search_queries"}

S1Empty == Stage1Output("", "none", {}, FALSE, <<>>, FALSE, <<>>, FALSE)
S1Prose == Stage1Output("prose", "none", {}, FALSE, <<>>, FALSE, <<>>, FALSE)
S1BadJson ==
    Stage1Output("{broken", "invalid", {}, FALSE, <<>>, FALSE, <<>>, FALSE)
S1MissingKeys ==
    Stage1Output("{events only}", "object", {"events"}, TRUE, <<EvToronto>>,
                 FALSE, <<>>, FALSE)
S1EventsNull ==
    Stage1Output("{events: null}", "object", BothKeys, FALSE, <<>>,
                 TRUE, <<"toronto outage">>, FALSE)
S1QueriesNull ==
    Stage1Output("{search_queries: null}", "object", BothKeys, TRUE,
                 <<EvToronto>>, FALSE, <<>>, FALSE)
S1Good ==
    Stage1Output("{toronto}", "object", BothKeys, TRUE, <<EvToronto>>,
                 TRUE, <<"toronto ice storm outage", "telus toronto outage">>,
                 TRUE)
S1SixQueries ==
    Stage1Output("{vancouver, 6 queries}", "object", BothKeys, TRUE,
                 <<EvVancouver>>, TRUE,
                 <<"q1", "q2", "q3", "q4", "q5", "q6">>, FALSE)
S1EmptyLists ==
    Stage1Output("{events: [], search_queries: []}", "object", BothKeys,
                 TRUE, <<>>, TRUE, <<>>, FALSE)
S1NullType ==
    Stage1Output("{event_type: null}", "object", BothKeys, TRUE,
                 <<EvNullType>>, TRUE, <<"toronto outage">>, FALSE)
S1NotADict ==
    Stage1Output("{events: ['storm']}", "object", BothKeys, TRUE,
                 <<EvNotADict>>, TRUE, <<"toronto outage">>, TRUE)

Stage1Outputs ==
    {S1Empty, S1Prose, S1BadJson, S1MissingKeys, S1EventsNull, S1QueriesNull,
     S1Good, S1SixQueries, S1EmptyLists, S1NullType, S1NotADict}

EventMetadata(events, queries, weather, scope) ==
    [events |-> events, search_queries |-> queries,
     requires_weather_data |-> weather, geographic_scope |-> scope]

\* EventIntelligenceAgent._parse_response followed by the two len() calls of
\* analyze_query's try block: the exception raised, "none" when none.
ParseResponseError(r) ==
    CASE r.span = "none" -> "ValueError"
      [] r.span = "invalid" -> "JSONDecodeError"
      [] ~(BothKeys \subseteq r.keys) -> "ValueError"
      [] ~r.queries_is_list -> "TypeError"
      [] ~r.events_is_list -> "TypeError"
      [] OTHER -> "none"

\* EventIntelligenceAgent._parse_response: the metadata built.
ParseResponse(r) ==
    EventMetadata(r.events,
                  PySliceTo(r.search_queries, MAX_SEARCH_QUERIES),
                  r.requires_weather_data, "region")

\* EventIntelligenceAgent._generate_fallback_metadata
AnyIn(ws, q) == (ws \cap q.has) # {}
FallbackEventTypePowerFirst(q) ==
    CASE AnyIn({"power", "electricity", "grid"}, q) -> "power_outage"
      [] AnyIn({"storm", "ice", "snow", "rain", "weather"}, q) ->
            "weather_related_outage"
      [] AnyIn({"equipment", "tower", "failure"}, q) -> "equipment_failure"
      [] OTHER -> "unknown"
FallbackQueriesWithoutLast(location, timeframe, eventType) ==
    << location \o " network outage " \o timeframe,
       "telus " \o location \o " service disruption",
       location \o " cellular network down",
       eventType \o " " \o location \o " telecommunications" >>
FallbackEventType(q) ==
    CASE AnyIn({"storm", "ice", "snow", "rain", "weather"}, q) ->
            "weather_related_outage"
      [] AnyIn({"power", "electricity", "grid"}, q) -> "power_outage"
      [] AnyIn({"equipment", "tower", "failure"}, q) -> "equipment_failure"
      [] OTHER -> "unknown"
FallbackLocation(q) ==
    CASE "toronto" \in q.has -> "Toronto"
      [] "mississauga" \in q.has -> "Mississauga"
      [] "vancouver" \in q.has -> "Vancouver"
      [] "montreal" \in q.has -> "Montreal"
      [] OTHER -> "Toronto"
FallbackTimeframe(q) ==
    CASE AnyIn({"today", "now", "current"}, q) -> "today"
      [] AnyIn({"yesterday"}, q) -> "yesterday"
      [] AnyIn({"last week", "this week"}, q) -> "this week"
      [] OTHER -> "recent"
FallbackQueries(location, timeframe, eventType) ==
    << location \o " network outage " \o timeframe,
       "telus " \o location \o " service disruption",
       location \o " cellular network down",
       eventType \o " " \o location \o " telecommunications",
       location \o " cell tower outage " \o timeframe >>
GenerateFallbackMetadata(q) ==
    LET eventType == FallbackEventType(q)
        location == FallbackLocation(q)
        timeframe == FallbackTimeframe(q)
    IN  EventMetadata(
            << [is_dict |-> TRUE, event_type |-> JStr(eventType),
                primary_location |-> JStr(location),
                timeframe |-> JStr(timeframe)] >>,
            PySliceTo(FallbackQueries(location, timeframe, eventType),
                      MAX_SEARCH_QUERIES),
            eventType = "weather_related_outage",
            "city")

\* EventIntelligenceAgent.analyze_query after the model call returned r:
\* the parsed metadata, or the fallback when parsing raised.
AnalyzeQuery(q, r) ==
    IF ParseResponseError(r) = "none"
    THEN ParseResponse(r)
    ELSE GenerateFallbackMetadata(q)

(***************************************************************************)
(* Part 5. Stage 2: agents/web_intelligence.py, services/web_search.py,    *)
(* services/weather_api.py.                                                *)
(***************************************************************************)

Evidence(url, title) == [url |-> url, title |-> title]

\* What the evidence source answers to one search. The source is a
\* pluggable collaborator (the one under services/ is a stand-in returning
\* canned items), so the answer is drawn from these lists; within one
\* analysis every query gets the same answer, as with the stand-in.
SearchAnswers ==
    { <<>>,
      << Evidence("https://news.example.com/outage", "Breaking"),
         Evidence("", "No link"),
         Evidence("https://telus.com/updates", "Telus confirms"),
         Evidence("https://news.example.com/outage", "Breaking again") >> }

\* WebSearcher.search_multiple: one search per query, results flattened in
\* query order.
RECURSIVE SearchMultiple(_, _)
SearchMultiple(queries, answer) ==
    IF queries = <<>> THEN <<>>
    ELSE answer \o SearchMultiple(Tail(queries), answer)

\* WebIntelligenceAgent._deduplicate_results
RECURSIVE DedupKeepsEmptyUrl(_, _)
DedupKeepsEmptyUrl(results, seen) ==
    IF results = <<>> THEN <<>>
    ELSE LET r == Head(results)
         IN  IF r.url \notin seen
             THEN <<r>> \o DedupKeepsEmptyUrl(Tail(results),
                                              (seen \cup {r.url}) \ {""})
             ELSE DedupKeepsEmptyUrl(Tail(results), seen)
RECURSIVE DedupFrom(_, _)
DedupFrom(results, seen) ==
    IF results = <<>> THEN <<>>
    ELSE LET r == Head(results)
         IN  IF r.url # "" /\ r.url \notin seen
             THEN <<r>> \o DedupFrom(Tail(results), seen \cup {r.url})
             ELSE DedupFrom(Tail(results), seen)
DeduplicateKeepsAll(results) == results
DeduplicateResults(results) == DedupFrom(results, {})

\* WebIntelligenceAgent._gather_web_data
GatherWebData(md, answer) ==
    DeduplicateResults(SearchMultiple(md.search_queries, answer))

\* The city of CITY_COORDS whose name occurs in location.lower(), for the
\* locations of this model; "toronto" is the default of the code.
CityOf(location) ==
    CASE location = "Toronto" -> "toronto"
      [] location = "Mississauga" -> "mississauga"
      [] location = "Vancouver" -> "vancouver"
      [] location = "Montreal" -> "montreal"
      [] OTHER -> "toronto"

\* The (lat, lon) of CITY_COORDS as it is printed into the cache key.
CityCoords(city) ==
    CASE city = "toronto" -> "43.6532_-79.3832"
      [] city = "mississauga" -> "43.589_-79.6441"
      [] city = "vancouver" -> "49.2827_-123.1207"
      [] city = "montreal" -> "45.5017_-73.5673"

\* WebIntelligenceAgent._get_location_coordinates: the exception raised by
\* events[0].get("primary_location", "").lower(), "none" when none.
LocationCoordinatesError(md) ==
    IF md.events = <<>> THEN "none"
    ELSE LET e == md.events[1]
         IN  IF ~e.is_dict THEN "AttributeError"
             ELSE IF JGet(e.primary_location, JStr("")).t # "str"
                  THEN "AttributeError"
                  ELSE "none"

\* WebIntelligenceAgent._get_location_coordinates: the coordinates, None
\* when the metadata has no event.
GetLocationCoordinates(md) ==
    IF md.events = <<>> THEN "None"
    ELSE CityCoords(CityOf(JGet(md.events[1].primary_location, JStr("")).s))

\* Does _gather_weather_data reach WeatherAPI.get_current_weather?
WeatherWanted(md) ==
    /\ md.requires_weather_data
    /\ md.events # <<>>

\* cache_key of WeatherAPI.get_current_weather
WeatherKey(coords) == "weather_current_" \o coords

\* What the weather provider answers: a reading, or a failure (error status,
\* timeout, exception), which _fetch_real_weather turns into the canned
\* reading of _generate_mock_weather.
ProviderAnswers == {"ok", "failure"}
RealWeather == [condition |-> "snow", severity |-> "moderate", note |-> ""]
MockWeather ==
    [condition |-> "ice_storm", severity |-> "severe",
     note |-> "This is mock data for testing"]
FetchRealWeather(answer) == IF answer = "ok" THEN RealWeather ELSE MockWeather

\* WeatherAPI.get_current_weather: the reading returned.
GetCurrentWeather(c, coords, answer, t) ==
    IF Truthy(CacheGet(c, WeatherKey(coords), t))
    THEN CacheGet(c, WeatherKey(coords), t)
    ELSE FetchRealWeather(answer)

\* WeatherAPI.get_current_weather: the cache afterwards.
CacheAfterWeather(c, coords, answer, t) ==
    IF Truthy(CacheGet(c, WeatherKey(coords), t))
    THEN c
    ELSE CacheSet(CacheAfterGet(c, WeatherKey(coords), t),
                  WeatherKey(coords), FetchRealWeather(answer), t)

IntelligenceData(web, weather, queries) ==
    [web_results |-> web, weather_data |-> weather,
     total_data_points |-> Len(web), search_queries_used |-> queries]

\* WebIntelligenceAgent.gather_intelligence, when nothing raised.
GatherIntelligence(md, c, searchAnswer, providerAnswer, t) ==
    IntelligenceData(
        GatherWebData(md, searchAnswer),
        IF WeatherWanted(md)
        THEN GetCurrentWeather(c, GetLocationCoordinates(md), providerAnswer, t)
        ELSE NoneValue,
        md.search_queries)

(***************************************************************************)
(* Part 6. Stage 3: agents/geospatial_reasoning.py.                        *)
(***************************************************************************)

\* GeospatialReasoningAgent._build_user_prompt: event.get(...) on every
\* entry of event_metadata.events; the exception raised, "none" when none.
BuildUserPromptError(md) ==
    IF \E i \in 1..Len(md.events) : ~md.events[i].is_dict
    THEN "AttributeError" ELSE "none"

\* One entry of "affected_areas" in the model output.
AreaData(isDict, name, severity, latitude, confidence) ==
    [is_dict |-> isDict, area_name |-> name, severity |-> severity,
     latitude |-> latitude, longitude |-> JAbsent, radius_km |-> JAbsent,
     reasoning |-> JStr("cited evidence"), confidence |-> confidence,
     supporting_data_points |-> JAbsent]

\* One entry of "events" in the model output.
EventData(isDict, name, areas) ==
    [is_dict |-> isDict, event_name |-> name, event_type |-> JAbsent,
     timeframe |-> JAbsent, affected_areas |-> areas]

Stage3Output(raw, span, hasEvents, eventsIsList, events) ==
    [raw |-> raw, span |-> span, has_events |-> hasEvents,
     events_is_list |-> eventsIsList, events |-> events]

\* AffectedArea and Event of models/data_models.py. severity and confidence
\* keep whatever JSON value the model gave: the dataclass does not check.
AffectedArea(name, severity, latRange, longRange, lat, lon, reasoning, impact, confidence, points) ==
    [area_name |-> name, severity |-> severity,
     lat_range |-> latRange, long_range |-> longRange,
     center |-> [lat |-> lat, long |-> lon], reasoning |-> reasoning,
     estimated_impact |-> impact, confidence |-> confidence,
     data_points |-> points]
Event(id, name, type, timeframe, areas) ==
    [event_id |-> id, event_name |-> name, event_type |-> type,
     timeframe |-> timeframe, affected_areas |-> areas]

\* f"evt_{idx+1:03d}"
EventIdOfFirst(n) == "evt_001"
EventId(n) ==
    "evt_" \o (IF n < 10 THEN "00" ELSE IF n < 100 THEN "0" ELSE "")
           \o ToString(n)

\* Default centre of _create_affected_area, in hundredths of a degree.
DefaultLatitude == JNum(4365)
DefaultLongitude == JNum(-7938)

\* GeospatialReasoningAgent._create_affected_area: the exception raised,
\* "none" when none. radius_km / 111.0 needs a number; the longitude offset
\* divides by abs(center_lat / 90.0).
CreateAffectedAreaError(a) ==
    CASE ~a.is_dict -> "AttributeError"
      [] JGet(a.radius_km, JNum(2)).t # "num" -> "TypeError"
      [] JGet(a.latitude, DefaultLatitude).t # "num" -> "TypeError"
      [] JGet(a.latitude, DefaultLatitude).n = 0 -> "ZeroDivisionError"
      [] JGet(a.longitude, DefaultLongitude).t # "num" -> "TypeError"
      [] OTHER -> "none"

\* Ranges are kept in ten-thousandths of a degree, centres in hundredths.
RangeUnits(hundredths) == hundredths * 100

\* a / b for b > 0, cut towards zero.
SignedDiv(a, b) == IF a >= 0 THEN a \div b ELSE 0 - ((0 - a) \div b)
Abs(a) == IF a >= 0 THEN a ELSE 0 - a

\* lat_offset = radius_km / 111.0, in ten-thousandths of a degree.
LatOffset(radius) == SignedDiv(radius * 10000, 111)

\* lon_offset = radius_km / (111.0 * abs(center_lat / 90.0)), for a centre
\* latitude other than 0 (in hundredths of a degree).
LonOffset(radius, lat) == SignedDiv(radius * 9000 * 10000, 111 * Abs(lat))

\* [round(center - offset, 6), round(center + offset, 6)]
RangeAround(center, offset) ==
    <<RangeUnits(center) - offset, RangeUnits(center) + offset>>

\* GeospatialReasoningAgent._create_affected_area
CreateAffectedArea(a) ==
    AffectedArea(JGet(a.area_name, JStr("Unknown Area")),
                 JGet(a.severity, JStr("moderate")),
                 RangeAround(JGet(a.latitude, DefaultLatitude).n,
                             LatOffset(JGet(a.radius_km, JNum(2)).n)),
                 RangeAround(JGet(a.longitude, DefaultLongitude).n,
                             LonOffset(JGet(a.radius_km, JNum(2)).n,
                                       JGet(a.latitude, DefaultLatitude).n)),
                 JGet(a.latitude, DefaultLatitude).n,
                 JGet(a.longitude, DefaultLongitude).n,
                 JGet(a.reasoning, JStr("No reasoning provided")),
                 "Unknown",
                 JGet(a.confidence, JNum(70)),
                 JGet(a.supporting_data_points, JNum(0)))

\* First exception in a sequence of per-item exceptions, "none" when none.
RECURSIVE FirstError(_)
FirstError(errs) ==
    IF errs = <<>> THEN "none"
    ELSE IF Head(errs) # "none" THEN Head(errs)
    ELSE FirstError(Tail(errs))

\* GeospatialReasoningAgent._create_event_from_data
CreateEventError(e) ==
    IF ~e.is_dict THEN "AttributeError"
    ELSE FirstError([i \in 1..Len(e.affected_areas) |->
                        CreateAffectedAreaError(e.affected_areas[i])])
CreateEventFromData(e, id) ==
    Event(id,
          JGet(e.event_name, JStr("Unnamed Event")),
          JGet(e.event_type, JStr("unknown")),
          JGet(e.timeframe, JStr("Unknown timeframe")),
          [i \in 1..Len(e.affected_areas) |->
              CreateAffectedArea(e.affected_areas[i])])

\* GeospatialReasoningAgent._parse_analysis
ParseAnalysisError(r) ==
    CASE r.span = "none" -> "ValueError"
      [] r.span = "invalid" -> "JSONDecodeError"
      [] ~r.has_events -> "ValueError"
      [] ~r.events_is_list -> "TypeError"
      [] OTHER -> FirstError([i \in 1..Len(r.events) |->
                                 CreateEventError(r.events[i])])
ParseAnalysis(r) ==
    [i \in 1..Len(r.events) |-> CreateEventFromData(r.events[i], EventId(i))]

\* str.replace('_', ' ').title() for the event types of this model.
TitleOf(type) ==
    CASE type = "weather_related_outage" -> "Weather Related Outage"
      [] type = "power_outage" -> "Power Outage"
      [] type = "equipment_failure" -> "Equipment Failure"
      [] type = "unknown" -> "Unknown"
      [] type = "Network" -> "Network"
      [] OTHER -> type

\* event_info of _generate_fallback_events: events[0], or {} without events.
EmptyDict == [is_dict |-> TRUE, event_type |-> JAbsent,
              primary_location |-> JAbsent, timeframe |-> JAbsent]
FallbackEventInfo(md) == IF md.events # <<>> THEN md.events[1] ELSE EmptyDict

\* GeospatialReasoningAgent._generate_fallback_events: the exception raised
\* by event_info.get(...) and by .replace on the event type, "none" when none.
FallbackEventsError(md) ==
    LET info == FallbackEventInfo(md)
    IN  IF ~info.is_dict THEN "AttributeError"
        ELSE IF JGet(info.event_type, JStr("Network")).t # "str"
             THEN "AttributeError"
             ELSE "none"

\* confidence of the fallback area, 0.6
FALLBACK_CONFIDENCE == 60

\* GeospatialReasoningAgent._generate_fallback_events
GenerateFallbackEvents(md, intel) ==
    LET info == FallbackEventInfo(md)
        area == AffectedArea(
                    JStr(JText(JGet(info.primary_location, JStr("Toronto")))
                         \o " Area"),
                    JStr("moderate"),
                    <<436000, 437000>>, <<0 - 794300, 0 - 793300>>,
                    4365, -7938,
                    JStr("Fallback area generated from "
                         \o ToString(Len(intel.web_results))
                         \o " web sources."),
                    "~10,000 users (estimated)",
                    JNum(FALLBACK_CONFIDENCE),
                    JNum(Len(intel.web_results)))
    IN  << Event("evt_001",
                 JStr(TitleOf(JGet(info.event_type, JStr("Network")).s)
                      \o " - "
                      \o JText(JGet(info.primary_location, JStr("Unknown")))),
                 JGet(info.event_type, JStr("unknown")),
                 JGet(info.timeframe, JStr("Recent")),
                 <<area>>) >>

\* GeospatialReasoningAgent.analyze_impact after the model call returned r:
\* the exception that leaves it, "none" when none.
AnalyzeImpactError(md, r) ==
    IF ParseAnalysisError(r) = "none" THEN "none" ELSE FallbackEventsError(md)

\* GeospatialReasoningAgent.analyze_impact: the events returned.
AnalyzeImpactAddsFallback(md, intel, r) ==
    IF ParseAnalysisError(r) # "none"
    THEN GenerateFallbackEvents(md, intel)
    ELSE IF FallbackEventsError(md) # "none"
    THEN ParseAnalysis(r)
    ELSE ParseAnalysis(r) \o GenerateFallbackEvents(md, intel)
AnalyzeImpact(md, intel, r) ==
    IF ParseAnalysisError(r) = "none"
    THEN ParseAnalysis(r)
    ELSE GenerateFallbackEvents(md, intel)

(***************************************************************************)
(* Part 7. orchestrator.py: post-processing and the result.                *)
(***************************************************************************)

\* The comparison area.confidence >= min_confidence raises TypeError when
\* the confidence is not a number.
FilterAreasError(areas) ==
    IF \E i \in 1..Len(areas) : areas[i].confidence.t # "num"
    THEN "TypeError" ELSE "none"

\* [area for area in areas if area.confidence >= min_confidence]
KeepsArea(area, minConfidence) == area.confidence.n >= minConfidence
RECURSIVE SelectAreas(_, _)
SelectAreas(areas, minConfidence) ==
    IF areas = <<>> THEN <<>>
    ELSE IF KeepsArea(Head(areas), minConfidence)
         THEN <<Head(areas)>> \o SelectAreas(Tail(areas), minConfidence)
         ELSE SelectAreas(Tail(areas), minConfidence)

\* list.sort(key=lambda a: a.confidence, reverse=True): stable, descending.
RECURSIVE InsertBeforeTies(_, _)
InsertBeforeTies(area, sorted) ==
    IF sorted = <<>> THEN <<area>>
    ELSE IF Head(sorted).confidence.n > area.confidence.n
         THEN <<Head(sorted)>> \o InsertBeforeTies(area, Tail(sorted))
         ELSE <<area>> \o sorted
RECURSIVE InsertByConfidence(_, _)
InsertByConfidence(area, sorted) ==
    IF sorted = <<>> THEN <<area>>
    ELSE IF Head(sorted).confidence.n >= area.confidence.n
         THEN <<Head(sorted)>> \o InsertByConfidence(area, Tail(sorted))
         ELSE <<area>> \o sorted
RECURSIVE SortByConfidence(_)
SortByConfidence(areas) ==
    IF areas = <<>> THEN <<>>
    ELSE InsertByConfidence(areas[Len(areas)],
                            SortByConfidence(SubSeq(areas, 1, Len(areas) - 1)))

\* The areas one event keeps in _filter_events.
FilteredAreas(areas, maxAreas, minConfidence) ==
    PySliceTo(SortByConfidence(SelectAreas(areas, minConfidence)), maxAreas)

\* NetworkImpactOrchestrator._filter_events
FilterEventsError(events) ==
    FirstError([i \in 1..Len(events) |->
                   FilterAreasError(events[i].affected_areas)])
FilterKeepsEmptyEvents(events, maxAreas, minConfidence) ==
    [i \in 1..Len(events) |->
        [events[i] EXCEPT !.affected_areas =
            FilteredAreas(events[i].affected_areas, maxAreas, minConfidence)]]
RECURSIVE FilterEvents(_, _, _)
FilterEvents(events, maxAreas, minConfidence) ==
    IF events = <<>> THEN <<>>
    ELSE LET e == Head(events)
             kept == FilteredAreas(e.affected_areas, maxAreas, minConfidence)
             rest == FilterEvents(Tail(events), maxAreas, minConfidence)
         IN  IF kept # <<>>
             THEN <<[e EXCEPT !.affected_areas = kept]>> \o rest
             ELSE rest

\* NetworkImpactOrchestrator._remove_reasoning
REASONING_OMITTED ==
    JStr("Reasoning omitted (set include_reasoning=true to see details)")
RedactsNameToo(events) ==
    [i \in 1..Len(events) |->
        [events[i] EXCEPT !.affected_areas =
            [j \in 1..Len(events[i].affected_areas) |->
                [events[i].affected_areas[j] EXCEPT
                    !.reasoning = REASONING_OMITTED,
                    !.area_name = REASONING_OMITTED]]]]
RemoveReasoning(events) ==
    [i \in 1..Len(events) |->
        [events[i] EXCEPT !.affected_areas =
            [j \in 1..Len(events[i].affected_areas) |->
                [events[i].affected_areas[j] EXCEPT
                    !.reasoning = REASONING_OMITTED]]]]

\* sum(len(e.affected_areas) for e in events)
RECURSIVE TotalAreas(_)
TotalAreas(events) ==
    IF events = <<>> THEN 0
    ELSE Len(Head(events).affected_areas) + TotalAreas(Tail(events))

\* All areas of all events, in order.
RECURSIVE AllAreas(_)
AllAreas(events) ==
    IF events = <<>> THEN <<>>
    ELSE Head(events).affected_areas \o AllAreas(Tail(events))

\* NetworkImpactOrchestrator._generate_summary: area.severity.lower() raises
\* AttributeError when a severity is not a string.
GenerateSummaryError(events) ==
    IF \E i \in 1..Len(AllAreas(events)) : AllAreas(events)[i].severity.t # "str"
    THEN "AttributeError" ELSE "none"

\* str.lower() for the severities of this model.
Lower(str) ==
    CASE str = "Critical" -> "critical"
      [] str = "High" -> "high"
      [] OTHER -> str

RECURSIVE SumConfidence(_)
SumConfidence(areas) ==
    IF areas = <<>> THEN 0
    ELSE Head(areas).confidence.n + SumConfidence(Tail(areas))

CountSeverity(areas, severity) ==
    Cardinality({i \in 1..Len(areas) : Lower(areas[i].severity.s) = severity})

\* NetworkImpactOrchestrator._generate_summary: the parts the text is made of.
GenerateSummary(events, totalAreas) ==
    IF events = <<>>
    THEN [text |-> "No significant network impacts detected",
          events |-> 0, areas |-> 0, names |-> <<>>,
          severity |-> "", confidence |-> ""]
    ELSE LET areas == AllAreas(events)
         IN  [text |-> "Analysis identified",
              events |-> Len(events), areas |-> totalAreas,
              names |-> [i \in 1..Min(3, Len(events)) |-> events[i].event_name],
              severity |->
                  IF CountSeverity(areas, "critical") > 0 THEN "critical"
                  ELSE IF CountSeverity(areas, "high") > 0 THEN "high"
                  ELSE "moderate to low",
              confidence |->
                  \* avg_confidence >= 0.8, >= 0.7, in hundredths
                  IF totalAreas > 0 /\ SumConfidence(areas) >= 80 * totalAreas
                  THEN "High"
                  ELSE IF totalAreas > 0
                          /\ SumConfidence(areas) >= 70 * totalAreas
                       THEN "Moderate"
                       ELSE "Limited data available"]

\* Steps 4 to 6 of analyze: the exception raised, "none" when none.
PostProcessError(events, opts) ==
    IF FilterEventsError(events) # "none" THEN FilterEventsError(events)
    ELSE GenerateSummaryError(
             FilterEvents(events,
                          OptGet(opts, "max_areas", MAX_AREAS_RETURNED),
                          OptGet(opts, "min_confidence",
                                 MIN_CONFIDENCE_THRESHOLD)))

\* Steps 4 to 6 of analyze: the AnalysisResult built.
BuildResult(q, opts, intel, events, t) ==
    LET maxAreas == OptGet(opts, "max_areas", MAX_AREAS_RETURNED)
        minConfidence == OptGet(opts, "min_confidence",
                                MIN_CONFIDENCE_THRESHOLD)
        filtered == FilterEvents(events, maxAreas, minConfidence)
        final == IF ~OptGet(opts, "include_reasoning", TRUE)
                 THEN RemoveReasoning(filtered) ELSE filtered
        totalAreas == TotalAreas(final)
    IN  [query |-> q.text,
         timestamp |-> t,
         summary |-> GenerateSummary(final, totalAreas),
         events |-> final,
         total_events |-> Len(final),
         total_affected_areas |-> totalAreas,
         analysis_metadata |->
            [web_searches_performed |-> Len(intel.search_queries_used),
             weather_api_calls |-> IF Truthy(intel.weather_data) THEN 1 ELSE 0,
             total_data_points_analyzed |-> intel.total_data_points,
             data_sources |-> IF Truthy(intel.weather_data)
                              THEN <<"web_search", "openweathermap">>
                              ELSE <<"web_search">>,
             search_queries_used |-> intel.search_queries_used,
             filters_applied |-> [max_areas |-> maxAreas,
                                  min_confidence |-> minConfidence]]]

(***************************************************************************)
(* Part 8. NetworkImpactOrchestrator.analyze, one call at a time. Each     *)
(* action runs from one await of analyze to the next.                      *)
(***************************************************************************)

\* Outputs the Stage 3 model may give.
AreaCritical ==
    AreaData(TRUE, JStr("Downtown"), JStr("critical"), JAbsent, JNum(90))
AreaDefaultConfidence ==
    AreaData(TRUE, JStr("Midtown"), JStr("High"), JNum(4370), JAbsent)
AreaUnsure ==
    AreaData(TRUE, JStr("Harbour"), JStr("low"), JAbsent, JNum(50))
AreaTextConfidence ==
    AreaData(TRUE, JStr("Annex"), JStr("high"), JAbsent, JStr("high"))
AreaNumberSeverity ==
    AreaData(TRUE, JStr("Beaches"), JNum(3), JAbsent, JNum(90))
AreaEquator ==
    AreaData(TRUE, JStr("Equator"), JStr("low"), JNum(0), JNum(90))

S3Empty == Stage3Output("", "none", FALSE, FALSE, <<>>)
S3Prose == Stage3Output("prose", "none", FALSE, FALSE, <<>>)
S3BadJson == Stage3Output("{broken", "invalid", FALSE, FALSE, <<>>)
S3NoEventsKey == Stage3Output("{areas: []}", "object", FALSE, FALSE, <<>>)
S3EventsNull == Stage3Output("{events: null}", "object", TRUE, FALSE, <<>>)
S3NoEvents == Stage3Output("{events: []}", "object", TRUE, TRUE, <<>>)
S3Good ==
    Stage3Output("{two events}", "object", TRUE, TRUE,
        << EventData(TRUE, JStr("Ice storm outage"),
                     <<AreaUnsure, AreaDefaultConfidence, AreaCritical>>),
           EventData(TRUE, JStr("Minor reports"), <<AreaUnsure>>) >>)
S3TextConfidence ==
    Stage3Output("{confidence: 'high'}", "object", TRUE, TRUE,
        << EventData(TRUE, JStr("Outage"), <<AreaTextConfidence>>) >>)
S3NumberSeverity ==
    Stage3Output("{severity: 3}", "object", TRUE, TRUE,
        << EventData(TRUE, JStr("Outage"), <<AreaNumberSeverity>>) >>)
S3Equator ==
    Stage3Output("{latitude: 0}", "object", TRUE, TRUE,
        << EventData(TRUE, JStr("Outage"), <<AreaCritical, AreaEquator>>) >>)
S3FirstDropped ==
    Stage3Output("{two events, the first unsure}", "object", TRUE, TRUE,
        << EventData(TRUE, JStr("Rumours"), <<AreaUnsure>>),
           EventData(TRUE, JStr("Tower failure"), <<AreaCritical>>) >>)
S3NotADict ==
    Stage3Output("{events: ['outage']}", "object", TRUE, TRUE,
        << EventData(FALSE, JAbsent, <<>>) >>)

Stage3Outputs ==
    {S3Empty, S3Prose, S3BadJson, S3NoEventsKey, S3EventsNull, S3NoEvents,
     S3Good, S3FirstDropped, S3TextConfidence, S3NumberSeverity, S3Equator,
     S3NotADict}

\* Number of analyze calls explored.
MaxCalls == 2
\* Time advances in steps of half the TTL up to this time.
MaxTime == 300
TickSeconds == CACHE_TTL \div 2

NoPrev == [returned |-> FALSE]
NoneYet == [unset |-> TRUE]

\* cache_key = f"analysis_{question}"
AnalysisKey(q) == "analysis_" \o q.text

PipelineInit ==
    /\ cache = <<>>
    /\ now = 0
    /\ pc = "idle"
    /\ question = NoneYet
    /\ options = NoOptions
    /\ event_metadata = NoneYet
    /\ intelligence_data = NoneYet
    /\ result = NoneYet
    /\ error = "none"
    /\ cache_hit = FALSE
    /\ model_calls = 0
    /\ search_calls = 0
    /\ weather_calls = 0
    /\ stage1_path = "none"
    /\ stage3_path = "none"
    /\ prev = NoPrev
    /\ calls = 0

\* analyze(question, options) up to its first await: the cache check, and on
\* a miss the Stage 1 model call is issued.
AnalyzeEnters(q, opts) ==
    /\ pc \in {"idle", "returned", "failed"}
    /\ calls < MaxCalls
    /\ calls' = calls + 1
    /\ prev' = IF pc = "returned"
               THEN [returned |-> TRUE, question |-> question,
                     options |-> options, result |-> result]
               ELSE NoPrev
    /\ question' = q
    /\ options' = opts
    /\ cache' = CacheAfterGet(cache, AnalysisKey(q), now)
    /\ event_metadata' = NoneYet
    /\ intelligence_data' = NoneYet
    /\ error' = "none"
    /\ search_calls' = 0
    /\ weather_calls' = 0
    /\ stage1_path' = "none"
    /\ stage3_path' = "none"
    /\ IF Truthy(CacheGet(cache, AnalysisKey(q), now))
       THEN /\ pc' = "returned"
            /\ result' = CacheGet(cache, AnalysisKey(q), now)
            /\ cache_hit' = TRUE
            /\ model_calls' = 0
       ELSE /\ pc' = "stage1"
            /\ result' = NoneYet
            /\ cache_hit' = FALSE
            /\ model_calls' = 1
    /\ UNCHANGED <<now, cmVars, ccVars, fnVars, gaVars, ieVars>>

\* analyze called directly, not through the HTTP endpoint.
AnalyzeStart(q, opts) == AnalyzeEnters(q, opts) /\ UNCHANGED hpVars

\* Where analyze is after the model call of `stage` raised ModelTimeoutError:
\* call_gemma and call_deepseek are awaited outside the try blocks of the
\* agents, and analyze has no handler, so the exception leaves analyze.
TimeoutSwallowed(stage) == "returned"
TimeoutLeaves(stage) == "failed"

\* The statement of analyze that follows the await of `stage`: the three
\* awaits are consecutive statements, each taking the values the earlier ones
\* bound, and the post-processing and return follow Stage 3.
SkipsStage2(stage) ==
    IF stage = "stage1" THEN "stage3" ELSE "returned"
NextStage(stage) ==
    IF stage = "stage1" THEN "stage2"
    ELSE IF stage = "stage2" THEN "stage3"
    ELSE "returned"

\* A stage's model call raises ModelTimeoutError.
ModelTimeout ==
    /\ pc \in {"stage1", "stage3"}
    /\ pc' = TimeoutLeaves(pc)
    /\ error' = "ModelTimeoutError"
    /\ UNCHANGED <<cache, now, question, options, event_metadata,
                   intelligence_data, result, cache_hit, model_calls,
                   search_calls, weather_calls, stage1_path, stage3_path,
                   prev, calls,
                   cmVars, ccVars, fnVars, gaVars, hpVars, ieVars>>

\* The Stage 1 model call returns r: analyze_query parses it or falls back,
\* and Stage 2 issues its searches.
Stage1Returns(r) ==
    /\ pc = "stage1"
    /\ event_metadata' = AnalyzeQuery(question, r)
    /\ stage1_path' = IF ParseResponseError(r) = "none"
                      THEN "parsed" ELSE "fallback"
    /\ search_calls' = Len(event_metadata'.search_queries)
    /\ pc' = NextStage(pc)
    /\ UNCHANGED <<cache, now, question, options, intelligence_data, result,
                   error, cache_hit, model_calls, weather_calls, stage3_path,
                   prev, calls,
                   cmVars, ccVars, fnVars, gaVars, hpVars, ieVars>>

\* asyncio.gather of Stage 2 completes; analyze goes on into analyze_impact
\* up to the Stage 3 model call.
Stage2Completes(searchAnswer, providerAnswer) ==
    /\ pc = "stage2"
    /\ LET md == event_metadata
           weatherError == IF md.requires_weather_data
                           THEN LocationCoordinatesError(md) ELSE "none"
           fetches == /\ WeatherWanted(md)
                      /\ ~Truthy(CacheGet(cache,
                                  WeatherKey(GetLocationCoordinates(md)), now))
       IN  IF weatherError # "none"
           THEN /\ pc' = "failed"
                /\ error' = weatherError
                /\ UNCHANGED <<cache, intelligence_data, model_calls,
                               weather_calls>>
           ELSE /\ intelligence_data' =
                       GatherIntelligence(md, cache, searchAnswer,
                                          providerAnswer, now)
                /\ cache' = IF WeatherWanted(md)
                            THEN CacheAfterWeather(cache,
                                     GetLocationCoordinates(md),
                                     providerAnswer, now)
                            ELSE cache
                /\ weather_calls' = IF fetches THEN 1 ELSE 0
                /\ IF BuildUserPromptError(md) # "none"
                   THEN /\ pc' = "failed"
                        /\ error' = BuildUserPromptError(md)
                        /\ UNCHANGED model_calls
                   ELSE /\ pc' = NextStage(pc)
                        /\ model_calls' = model_calls + 1
                        /\ UNCHANGED error
    /\ UNCHANGED <<now, question, options, event_metadata, result, cache_hit,
                   search_calls, stage1_path, stage3_path, prev, calls,
                   cmVars, ccVars, fnVars, gaVars, hpVars, ieVars>>

\* Does analyze reach cache.set(cache_key, result)? It is the last statement
\* before the return, after Stage 3 and steps 4 to 6.
CommitsBeforePostProcessing(impactError, postError) == impactError = "none"
CommitsResult(impactError, postError) ==
    impactError = "none" /\ postError = "none"

\* The Stage 3 model call returns r: analyze_impact parses it or falls back,
\* then analyze filters, summarises, builds the result, caches and returns it.
Stage3Returns(r) ==
    /\ pc = "stage3"
    /\ stage3_path' = IF ParseAnalysisError(r) = "none"
                      THEN "parsed" ELSE "fallback"
    /\ LET md == event_metadata
           events == AnalyzeImpact(md, intelligence_data, r)
           impactError == AnalyzeImpactError(md, r)
           postError == IF impactError = "none"
                        THEN PostProcessError(events, options) ELSE "none"
           built == BuildResult(question, options, intelligence_data, events,
                                now)
       IN  /\ cache' = IF CommitsResult(impactError, postError)
                       THEN CacheSet(cache, AnalysisKey(question), built, now)
                       ELSE cache
           /\ IF impactError # "none"
              THEN /\ pc' = "failed"
                   /\ error' = impactError
                   /\ UNCHANGED result
              ELSE IF postError # "none"
              THEN /\ pc' = "failed"
                   /\ error' = postError
                   /\ UNCHANGED result
              ELSE /\ pc' = NextStage(pc)
                   /\ result' = built
                   /\ UNCHANGED error
    /\ UNCHANGED <<now, question, options, event_metadata, intelligence_data,
                   cache_hit, model_calls, search_calls, weather_calls,
                   stage1_path, prev, calls,
                   cmVars, ccVars, fnVars, gaVars, hpVars, ieVars>>

\* The task running analyze is cancelled at one of its awaits: the
\* CancelledError leaves analyze. In Stage 2 the weather branch of
\* asyncio.gather may already have completed (weatherDone), and then
\* get_current_weather has stored its reading.
AnalyzeCancelled(weatherDone, providerAnswer) ==
    /\ pc \in {"stage1", "stage2", "stage3"}
    /\ pc' = "failed"
    /\ error' = "CancelledError"
    /\ LET md == event_metadata
           stored == /\ pc = "stage2"
                     /\ weatherDone
                     /\ WeatherWanted(md)
                     /\ LocationCoordinatesError(md) = "none"
       IN  IF stored
           THEN /\ weather_calls' =
                      IF Truthy(CacheGet(cache,
                             WeatherKey(GetLocationCoordinates(md)), now))
                      THEN 0 ELSE 1
                /\ cache' = CacheAfterWeather(cache, GetLocationCoordinates(md),
                                              providerAnswer, now)
           ELSE UNCHANGED <<cache, weather_calls>>
    /\ UNCHANGED <<now, question, options, event_metadata, intelligence_data,
                   result, cache_hit, model_calls, search_calls, stage1_path,
                   stage3_path, prev, calls,
                   cmVars, ccVars, fnVars, gaVars, hpVars, ieVars>>

\* time.time() advances.
Tick ==
    /\ now + TickSeconds <= MaxTime
    /\ now' = now + TickSeconds
    /\ UNCHANGED <<cache, pc, question, options, event_metadata,
                   intelligence_data, result, error, cache_hit, model_calls,
                   search_calls, weather_calls, stage1_path, stage3_path,
                   prev, calls,
                   cmVars, ccVars, fnVars, gaVars, hpVars, ieVars>>

\* One analyze call, with every shape of model output.
FirstCall(q, opts) == pc = "idle" /\ AnalyzeStart(q, opts)

Next ==
    \/ \E q \in Questions, opts \in OptionsSet : FirstCall(q, opts)
    \/ ModelTimeout
    \/ \E r \in Stage1Outputs : Stage1Returns(r)
    \/ \E sa \in SearchAnswers, pa \in ProviderAnswers : Stage2Completes(sa, pa)
    \/ \E r \in Stage3Outputs : Stage3Returns(r)
    \/ \E wd \in BOOLEAN, pa \in ProviderAnswers : AnalyzeCancelled(wd, pa)
    \/ Tick

(***************************************************************************)
(* Part 9. SimpleCache under concurrent requests. Each dict operation of   *)
(* a method is one step (the interpreter may switch threads between any    *)
(* two of them); all threads work on the key K.                            *)
(***************************************************************************)

Threads == {"t1", "t2"}
CacheOps == {"get", "set", "delete", "clear"}
CacheValues == {"v1", "v2"}

\* The key every thread works on.
K == AnalysisKey(QIceStorm)

\* A thread that runs no cache method.
IdleThread ==
    [op |-> "none", pc |-> "idle", value |-> NoneValue, seen |-> NoneValue,
     removed |-> NoneValue, ret |-> NoneValue, raised |-> "none"]

ThreadsInit == threads = [t \in Threads |-> IdleThread]

\* The pipeline variables other than the cache and the clock.
plRest == <<pc, question, options, event_metadata, intelligence_data, result,
            error, cache_hit, model_calls, search_calls, weather_calls,
            stage1_path, stage3_path, prev, calls>>

\* The dict without key.
CacheWithout(c, key) == [k \in DOMAIN c \ {key} |-> c[k]]

\* Thread t enters a SimpleCache method (v is the value of set).
Begin(t, op, v) ==
    /\ threads[t].pc \in {"idle", "done", "raised"}
    /\ threads' = [threads EXCEPT ![t] =
          [IdleThread EXCEPT
              !.op = op,
              !.value = IF op = "set" THEN v ELSE NoneValue,
              !.pc = CASE op = "get" -> "get_contains"
                       [] op = "set" -> "set_store"
                       [] op = "delete" -> "delete_contains"
                       [] op = "clear" -> "clear_all"]]
    /\ UNCHANGED <<cache, now, plRest, cmVars, fnVars, gaVars, hpVars, ieVars>>

\* get: `if key in self.cache:`
GetContains(t) ==
    /\ threads[t].pc = "get_contains"
    /\ threads' = [threads EXCEPT ![t].pc =
          IF K \in DOMAIN cache THEN "get_read" ELSE "done"]
    /\ UNCHANGED <<cache, now, plRest, cmVars, fnVars, gaVars, hpVars, ieVars>>

\* get: `data, timestamp = self.cache[key]` and the expiry test.
GetRead(t) ==
    /\ threads[t].pc = "get_read"
    /\ threads' = [threads EXCEPT ![t] =
          IF K \notin DOMAIN cache
          THEN [@ EXCEPT !.pc = "raised", !.raised = "KeyError"]
          ELSE IF CacheLive(cache, K, now)
          THEN [@ EXCEPT !.pc = "done", !.seen = cache[K],
                         !.ret = cache[K].data]
          ELSE [@ EXCEPT !.pc = "get_del", !.seen = cache[K]]]
    /\ UNCHANGED <<cache, now, plRest, cmVars, fnVars, gaVars, hpVars, ieVars>>

\* get: `del self.cache[key]` of the expired branch.
GetDelete(t) ==
    /\ threads[t].pc = "get_del"
    /\ IF K \notin DOMAIN cache
       THEN /\ threads' = [threads EXCEPT ![t].pc = "raised",
                                          ![t].raised = "KeyError"]
            /\ UNCHANGED cache
       ELSE /\ threads' = [threads EXCEPT ![t].pc = "done",
                                          ![t].removed = cache[K]]
            /\ cache' = CacheWithout(cache, K)
    /\ UNCHANGED <<now, plRest, cmVars, fnVars, gaVars, hpVars, ieVars>>

\* set: `self.cache[key] = (value, time.time())`
SetStore(t) ==
    /\ threads[t].pc = "set_store"
    /\ cache' = CacheSet(cache, K, threads[t].value, now)
    /\ threads' = [threads EXCEPT ![t].pc = "done"]
    /\ UNCHANGED <<now, plRest, cmVars, fnVars, gaVars, hpVars, ieVars>>

\* delete: `if key in self.cache:`
DeleteContains(t) ==
    /\ threads[t].pc = "delete_contains"
    /\ threads' = [threads EXCEPT ![t] =
          IF K \in DOMAIN cache
          THEN [@ EXCEPT !.pc = "delete_del"]
          ELSE [@ EXCEPT !.pc = "done", !.ret = FALSE]]
    /\ UNCHANGED <<cache, now, plRest, cmVars, fnVars, gaVars, hpVars, ieVars>>

\* delete: `del self.cache[key]`
DeleteDel(t) ==
    /\ threads[t].pc = "delete_del"
    /\ IF K \notin DOMAIN cache
       THEN /\ threads' = [threads EXCEPT ![t].pc = "raised",
                                          ![t].raised = "KeyError"]
            /\ UNCHANGED cache
       ELSE /\ threads' = [threads EXCEPT ![t].pc = "done",
                                          ![t].removed = cache[K],
                                          ![t].ret = TRUE]
            /\ cache' = CacheWithout(cache, K)
    /\ UNCHANGED <<now, plRest, cmVars, fnVars, gaVars, hpVars, ieVars>>

\* clear: `self.cache.clear()`
ClearAll(t) ==
    /\ threads[t].pc = "clear_all"
    /\ cache' = <<>>
    /\ threads' = [threads EXCEPT ![t].pc = "done"]
    /\ UNCHANGED <<now, plRest, cmVars, fnVars, gaVars, hpVars, ieVars>>

CacheNext ==
    \/ \E t \in Threads, op \in CacheOps, v \in CacheValues : Begin(t, op, v)
    \/ \E t \in Threads : GetContains(t)
    \/ \E t \in Threads : GetRead(t)
    \/ \E t \in Threads : GetDelete(t)
    \/ \E t \in Threads : SetStore(t)
    \/ \E t \in Threads : DeleteContains(t)
    \/ \E t \in Threads : DeleteDel(t)
    \/ \E t \in Threads : ClearAll(t)
    \/ Tick

(***************************************************************************)
(* Part 10. Helper functions applied to inputs of bounded size.            *)
(***************************************************************************)

NothingApplied == [fn |-> "none"]
AppliedInit == applied = NothingApplied

\* Sequences over set of length at most n.
SeqsUpTo(set, n) == UNION {[1..len -> set] : len \in 0..n}

\* Longest list of evidence items explored.
MaxResults == 3

\* Evidence items: two sources, an item without url, and titles that tell
\* apart two items of the same url.
EvidenceItems ==
    {Evidence(url, title) : url \in {"", "https://a", "https://b"},
                            title \in {"first", "second"}}

\* WebIntelligenceAgent._deduplicate_results(results), and the bundle
\* gather_intelligence compiles from its result.
ApplyDeduplicate(results) ==
    /\ applied' = [fn |-> "deduplicate", input |-> results,
                   output |-> DeduplicateResults(results),
                   bundle |-> IntelligenceData(DeduplicateResults(results),
                                               NoneValue, <<>>)]
    /\ UNCHANGED <<cmVars, plVars, ccVars, gaVars, hpVars, ieVars>>

DedupNext ==
    \E results \in SeqsUpTo(EvidenceItems, MaxResults) :
        ApplyDeduplicate(results)

\* Most events in a list explored, and most areas in all its events together.
MaxListed == 3

RECURSIVE SumSeq(_)
SumSeq(sizes) ==
    IF sizes = <<>> THEN 0 ELSE Head(sizes) + SumSeq(Tail(sizes))

\* flat cut into consecutive pieces of the given sizes.
RECURSIVE SplitBy(_, _)
SplitBy(flat, sizes) ==
    IF sizes = <<>> THEN <<>>
    ELSE <<SubSeq(flat, 1, Head(sizes))>>
             \o SplitBy(SubSeq(flat, Head(sizes) + 1, Len(flat)), Tail(sizes))

\* Areas as _create_affected_area builds them: two of equal confidence that
\* their names tell apart, and one of lower confidence.
FilterArea(name, confidence) ==
    AffectedArea(JStr(name), JStr("high"),
                 RangeAround(4365, LatOffset(2)),
                 RangeAround(0 - 7938, LonOffset(2, 4365)), 4365, -7938,
                 JStr("cited evidence"), "Unknown", JNum(confidence), JNum(0))
FilterAreas ==
    {FilterArea("Downtown", 90), FilterArea("Harbour", 90),
     FilterArea("Midtown", 50)}

\* The area lists of the events of one list: an event may have no area.
FilterAreaLists ==
    {SplitBy(p[1], p[2]) :
        p \in {q \in SeqsUpTo(FilterAreas, MaxListed)
                        \X SeqsUpTo(0..MaxListed, MaxListed) :
                    SumSeq(q[2]) = Len(q[1])}}

\* Lists of events as _parse_analysis builds them: the i-th event has the
\* id EventId(i).
FilterEventInputs ==
    {[i \in 1..Len(lists) |->
         Event(EventId(i), JStr("Ice storm"), JStr("weather"), JStr("Recent"),
               lists[i])] : lists \in FilterAreaLists}

\* Values of options["max_areas"] and options["min_confidence"]: analyze
\* passes them to _filter_events as the caller gave them, unchecked.
MaxAreasValues == (0 - 2) .. (MaxListed + 1)
MinConfidenceValues == {0, MIN_CONFIDENCE_THRESHOLD, 95}

\* NetworkImpactOrchestrator._filter_events(events, max_areas,
\* min_confidence), on a list of events.
ApplyFilter(events, maxAreas, minConfidence) ==
    /\ applied' = [fn |-> "filter", input |-> events,
                   max_areas |-> maxAreas, min_confidence |-> minConfidence,
                   output |-> FilterEvents(events, maxAreas, minConfidence)]
    /\ UNCHANGED <<cmVars, plVars, ccVars, gaVars, hpVars, ieVars>>

\* The first application picks the list of events.
FilterFirst(events, maxAreas, minConfidence) ==
    /\ applied = NothingApplied
    /\ ApplyFilter(events, maxAreas, minConfidence)

\* The same list of events is filtered again with other parameters.
FilterAgain(maxAreas, minConfidence) ==
    /\ applied # NothingApplied
    /\ ApplyFilter(applied.input, maxAreas, minConfidence)

\* One application of _filter_events.
OrderNext ==
    /\ applied = NothingApplied
    /\ \E events \in FilterEventInputs,
          m \in MaxAreasValues, c \in MinConfidenceValues :
            FilterFirst(events, m, c)

\* Step 4 of analyze after _filter_events: the filtered events go through
\* _remove_reasoning when options["include_reasoning"] is false.
ApplyRedaction(includeReasoning) ==
    /\ applied.fn = "filter"
    /\ applied' = [fn |-> "redact", include_reasoning |-> includeReasoning,
                   input |-> applied.output,
                   output |-> IF ~includeReasoning
                              THEN RemoveReasoning(applied.output)
                              ELSE applied.output]
    /\ UNCHANGED <<cmVars, plVars, ccVars, gaVars, hpVars, ieVars>>

RedactNext ==
    \/ OrderNext
    \/ \E inc \in BOOLEAN : ApplyRedaction(inc)

FilterNext ==
    \/ \E events \in FilterEventInputs,
          m \in MaxAreasValues, c \in MinConfidenceValues :
            FilterFirst(events, m, c)
    \/ \E m \in MaxAreasValues, c \in MinConfidenceValues :
            FilterAgain(m, c)

\* Areas the Stage 3 model may give: the latitude, longitude and radius_km
\* absent, zero, negative and positive.
ImpactAreas ==
    {[AreaCritical EXCEPT !.area_name = JStr("Uptown"), !.latitude = lat,
                          !.longitude = lon, !.radius_km = radius] :
        lat \in {JAbsent, JNum(0), JNum(0 - 4500), JNum(4370)},
        lon \in {JAbsent, JNum(0)},
        radius \in {JAbsent, JNum(0 - 2), JNum(0), JNum(5)}}

\* Responses of the Stage 3 model: the samples of the pipeline, and two
\* events of which the first holds one of ImpactAreas after a plain area.
ImpactResponses ==
    Stage3Outputs \cup
    {Stage3Output("{two events}", "object", TRUE, TRUE,
        << EventData(TRUE, JStr("Outage"), <<AreaCritical, a>>),
           EventData(TRUE, JStr("Minor reports"), <<AreaUnsure>>) >>) :
        a \in ImpactAreas}

\* Metadata Stage 1 may hand over, and bundles without and with evidence.
ImpactMetadata ==
    {AnalyzeQuery(QIceStorm, r) :
        r \in {S1Good, S1Empty, S1EmptyLists, S1NullType, S1NotADict}}
ImpactBundles ==
    {IntelligenceData(web, NoneValue, <<>>) : web \in SearchAnswers}

\* GeospatialReasoningAgent.analyze_impact(event_metadata,
\* intelligence_data) from the moment the model call returned `response`.
ApplyAnalyzeImpact(md, intel, response) ==
    /\ applied' = [fn |-> "analyze_impact", metadata |-> md, bundle |-> intel,
                   response |-> response,
                   parse_error |-> ParseAnalysisError(response),
                   error |-> AnalyzeImpactError(md, response),
                   output |-> IF AnalyzeImpactError(md, response) = "none"
                              THEN AnalyzeImpact(md, intel, response)
                              ELSE <<>>]
    /\ UNCHANGED <<cmVars, plVars, ccVars, gaVars, hpVars, ieVars>>

ImpactNext ==
    /\ applied = NothingApplied
    /\ \E md \in ImpactMetadata, intel \in ImpactBundles,
          response \in ImpactResponses :
            ApplyAnalyzeImpact(md, intel, response)

\* _generate_fallback_metadata applied to one question. The function tests
\* whether each word of its vocabulary occurs in question.lower() as a
\* substring, so a question is represented by the vocabulary words it
\* contains; "snow" contains "now", so a question holding the first holds
\* the second as well.
MaxKeywords == 2
FallbackVocabulary ==
    {"storm", "ice", "snow", "rain", "weather", "power", "electricity",
     "grid", "equipment", "tower", "failure", "toronto", "mississauga",
     "vancouver", "montreal", "today", "now", "current", "yesterday",
     "last week", "this week"}
RECURSIVE KeywordSets(_)
KeywordSets(n) ==
    IF n = 0 THEN {{}}
    ELSE LET smaller == KeywordSets(n - 1)
         IN  smaller \cup {h \cup {w} : h \in smaller, w \in FallbackVocabulary}
SubstringClosure(h) == h \cup (IF "snow" \in h THEN {"now"} ELSE {})
RECURSIVE WordsOf(_)
WordsOf(h) ==
    IF h = {} THEN <<>>
    ELSE LET w == CHOOSE x \in h : TRUE IN <<w>> \o WordsOf(h \ {w})
RECURSIVE JoinWords(_)
JoinWords(ws) ==
    IF ws = <<>> THEN ""
    ELSE IF Len(ws) = 1 THEN ws[1]
    ELSE ws[1] \o " " \o JoinWords(Tail(ws))
QuestionWith(h) ==
    [text |-> JoinWords(WordsOf(h)), words |-> WordsOf(h),
     has |-> SubstringClosure(h)]
FallbackQuestions ==
    Questions \cup {QuestionWith(h) : h \in KeywordSets(MaxKeywords)}

\* The calls on the shared SimpleCache, one after the other: get, set, delete
\* and clear on the analysis keys, with time passing between them. applied
\* records the call and, per key, the last set that no delete or clear
\* followed (written).
NotWritten == [written |-> FALSE]
TtlKeys == {AnalysisKey(q) : q \in Questions}
TtlValues(q) ==
    {BuildResult(q, NoOptions, IntelligenceData(web, NoneValue, <<>>), <<>>, 0) :
        web \in {<<>>, <<Evidence("https://a", "Outage report")>>}}
WrittenNow ==
    IF applied = NothingApplied \/ applied.fn # "cache"
    THEN [k \in TtlKeys |-> NotWritten]
    ELSE applied.written
CacheCall(op, key, returned, written) ==
    [fn |-> "cache", op |-> op, key |-> key, at |-> now,
     returned |-> returned, written |-> written]

TtlGet(key) ==
    /\ applied' = CacheCall("get", key, CacheGet(cache, key, now), WrittenNow)
    /\ cache' = CacheAfterGet(cache, key, now)
TtlSet(key, value) ==
    /\ applied' = CacheCall("set", key, NoneValue,
                    [WrittenNow EXCEPT ![key] =
                        [written |-> TRUE, data |-> value, at |-> now]])
    /\ cache' = CacheSet(cache, key, value, now)
TtlDelete(key) ==
    /\ applied' = CacheCall("delete", key, CacheDeleteReturns(cache, key),
                    [WrittenNow EXCEPT ![key] = NotWritten])
    /\ cache' = CacheDelete(cache, key)
TtlClear ==
    /\ applied' = CacheCall("clear", "", NoneValue,
                    [k \in TtlKeys |-> NotWritten])
    /\ cache' = CacheClear(cache)
TtlCall ==
    /\ \/ \E key \in TtlKeys : TtlGet(key)
       \/ \E q \in Questions : \E value \in TtlValues(q) :
             TtlSet(AnalysisKey(q), value)
       \/ \E key \in TtlKeys : TtlDelete(key)
       \/ TtlClear
    /\ UNCHANGED <<now, pc, question, options, event_metadata,
                   intelligence_data, result, error, cache_hit, model_calls,
                   search_calls, weather_calls, stage1_path, stage3_path,
                   prev, calls, cmVars, ccVars, gaVars, hpVars, ieVars>>

\* The cache calls, and analyze looking its question up (a model call that
\* times out ends the analysis so that the next one can start).
TtlNext ==
    \/ TtlCall
    \/ \E q \in Questions : AnalyzeStart(q, NoOptions)
    \/ ModelTimeout
    \/ Tick

ApplyFallbackMetadata(q) ==
    /\ applied' = [fn |-> "fallback_metadata", question |-> q,
                   output |-> GenerateFallbackMetadata(q)]
    /\ UNCHANGED <<cmVars, plVars, ccVars, gaVars, hpVars, ieVars>>

FallbackNext ==
    /\ applied = NothingApplied
    /\ \E q \in FallbackQuestions : ApplyFallbackMetadata(q)

(***************************************************************************)
(* Part 11. WebIntelligenceAgent.gather_intelligence task by task.         *)
(* search_multiple starts one search per query and gathers them;           *)
(* gather_intelligence gathers that and the weather branch. Each task      *)
(* completes in a step of its own, in any order.                           *)
(***************************************************************************)

GatherIdle == [phase |-> "idle"]
GatherInit == gather = GatherIdle

Pending == [done |-> FALSE]
Fetched(items) == [done |-> TRUE, items |-> items]

\* The metadata Stage 1 can hand to Stage 2.
Stage1Metadata == {AnalyzeQuery(q, r) : q \in Questions, r \in Stage1Outputs}

\* all_results.extend(result_set) for every result set, in query order.
RECURSIVE Flatten(_)
Flatten(fetched) ==
    IF fetched = <<>> THEN <<>>
    ELSE Head(fetched).items \o Flatten(Tail(fetched))

\* Have `await asyncio.gather(*tasks)` of search_multiple and
\* `await asyncio.gather(web_task, weather_task)` both returned?
GatherDoneEarly(g) == g.weather \in {"skipped", "done"}
GatherDone(g) ==
    /\ \A i \in 1..Len(g.fetched) : g.fetched[i].done
    /\ g.weather \in {"skipped", "done"}

\* gather_intelligence(md) is called: both branches are started, one search
\* per query.
GatherStart(md) ==
    /\ gather.phase \in {"idle", "joined", "raised"}
    /\ gather' = [phase |-> "running",
                  fetched |-> [i \in 1..Len(md.search_queries) |-> Pending],
                  weather |-> "pending", reading |-> NoneValue]
    /\ event_metadata' = md
    /\ intelligence_data' = NoneYet
    /\ search_calls' = Len(md.search_queries)
    /\ weather_calls' = 0
    /\ UNCHANGED <<cache, now, pc, question, options, result, error,
                   cache_hit, model_calls, stage1_path, stage3_path, prev,
                   calls, cmVars, ccVars, fnVars, hpVars, ieVars>>

\* The search of query i returns its results.
FetchReturns(i, answer) ==
    /\ gather.phase \in {"running", "raised"}
    /\ i \in 1..Len(gather.fetched)
    /\ ~gather.fetched[i].done
    /\ gather' = [gather EXCEPT !.fetched[i] = Fetched(answer)]
    /\ UNCHANGED <<plVars, cmVars, ccVars, fnVars, hpVars, ieVars>>

\* The exception that leaves _gather_weather_data when weather is required,
\* "none" when none. Only _get_location_coordinates, called outside the try,
\* can raise: _fetch_real_weather answers every provider failure with the
\* canned reading, and the try around get_current_weather catches the rest.
WeatherBranchErrorOnFailure(md, providerAnswer) ==
    IF providerAnswer = "failure" THEN "ClientError"
    ELSE LocationCoordinatesError(md)
WeatherBranchError(md, providerAnswer) == LocationCoordinatesError(md)

\* _gather_weather_data returns or raises.
WeatherBranchReturns(providerAnswer) ==
    /\ gather.phase = "running"
    /\ gather.weather = "pending"
    /\ LET md == event_metadata
       IN  IF ~md.requires_weather_data
           THEN /\ gather' = [gather EXCEPT !.weather = "skipped"]
                /\ UNCHANGED <<cache, weather_calls>>
           ELSE IF WeatherBranchError(md, providerAnswer) # "none"
           THEN /\ gather' = [gather EXCEPT !.weather = "raised",
                                            !.phase = "raised"]
                /\ UNCHANGED <<cache, weather_calls>>
           ELSE IF ~WeatherWanted(md)
           THEN /\ gather' = [gather EXCEPT !.weather = "done"]
                /\ UNCHANGED <<cache, weather_calls>>
           ELSE /\ gather' = [gather EXCEPT
                                !.weather = "done",
                                !.reading = GetCurrentWeather(cache,
                                    GetLocationCoordinates(md),
                                    providerAnswer, now)]
                /\ weather_calls' =
                      IF Truthy(CacheGet(cache,
                             WeatherKey(GetLocationCoordinates(md)), now))
                      THEN 0 ELSE 1
                /\ cache' = CacheAfterWeather(cache, GetLocationCoordinates(md),
                                              providerAnswer, now)
    /\ UNCHANGED <<now, pc, question, options, event_metadata,
                   intelligence_data, result, error, cache_hit, model_calls,
                   search_calls, stage1_path, stage3_path, prev, calls,
                   cmVars, ccVars, fnVars, hpVars, ieVars>>

\* Both gathers have returned: the IntelligenceData is built and returned.
GatherJoins ==
    /\ gather.phase = "running"
    /\ GatherDone(gather)
    /\ gather' = [gather EXCEPT !.phase = "joined"]
    /\ intelligence_data' =
          IntelligenceData(
              DeduplicateResults(
                  Flatten(SelectSeq(gather.fetched, LAMBDA f : f.done))),
              gather.reading,
              event_metadata.search_queries)
    /\ UNCHANGED <<cache, now, pc, question, options, event_metadata, result,
                   error, cache_hit, model_calls, search_calls, weather_calls,
                   stage1_path, stage3_path, prev, calls, cmVars, ccVars,
                   fnVars, hpVars, ieVars>>

JoinNext ==
    \/ \E md \in Stage1Metadata : GatherStart(md)
    \/ \E i \in 1..MAX_SEARCH_QUERIES, answer \in SearchAnswers :
          FetchReturns(i, answer)
    \/ \E pa \in ProviderAnswers : WeatherBranchReturns(pa)
    \/ GatherJoins
    \/ Tick

(***************************************************************************)
(* Part 12. app.py: POST /api/analyze-network-impact.                      *)
(* The handler validates the question, runs analyze to its end on an event *)
(* loop of its own, and answers 200, 400 or 500.                           *)
(***************************************************************************)

\* failures: what the user was shown by each 500 answer to a failed analysis
\* so far (the error and message fields of the body).
HttpIdle == [phase |-> "idle", failures |-> {}]
HttpInit == http = HttpIdle

\* The limits of validate_question.
MIN_QUESTION_LENGTH == 10
MAX_QUESTION_LENGTH == 500

\* A string of n copies of the one-character string ch.
RECURSIVE Pad(_, _)
Pad(ch, n) ==
    IF n = 0 THEN ""
    ELSE IF n % 2 = 0 THEN LET half == Pad(ch, n \div 2) IN half \o half
    ELSE ch \o Pad(ch, n - 1)

\* str.strip() leaves nothing.
IsBlank(text) == \A i \in 1..Len(text) : SubSeq(text, i, i) = " "

\* `not value` for a JSON scalar: None, "" and 0 are falsy.
JFalsy(v) ==
    \/ v.t = "null"
    \/ v.t = "str" /\ v.s = ""
    \/ v.t = "num" /\ v.n = 0

\* NetworkImpactOrchestrator.validate_question: the exception raised, "none"
\* when none. question.strip() needs a string.
ValidateQuestionError(v) ==
    IF ~JFalsy(v) /\ v.t # "str" THEN "AttributeError" ELSE "none"

\* NetworkImpactOrchestrator.validate_question: (is_valid, error_message).
ValidateQuestionOffByOne(v) ==
    IF JFalsy(v) \/ IsBlank(v.s)
    THEN [is_valid |-> FALSE, error_msg |-> "Question cannot be empty"]
    ELSE IF Len(v.s) <= MIN_QUESTION_LENGTH
    THEN [is_valid |-> FALSE,
          error_msg |-> "Question too short (minimum 10 characters)"]
    ELSE IF Len(v.s) > MAX_QUESTION_LENGTH
    THEN [is_valid |-> FALSE,
          error_msg |-> "Question too long (maximum 500 characters)"]
    ELSE [is_valid |-> TRUE, error_msg |-> ""]
ValidateQuestion(v) ==
    IF JFalsy(v) \/ IsBlank(v.s)
    THEN [is_valid |-> FALSE, error_msg |-> "Question cannot be empty"]
    ELSE IF Len(v.s) < MIN_QUESTION_LENGTH
    THEN [is_valid |-> FALSE,
          error_msg |-> "Question too short (minimum 10 characters)"]
    ELSE IF Len(v.s) > MAX_QUESTION_LENGTH
    THEN [is_valid |-> FALSE,
          error_msg |-> "Question too long (maximum 500 characters)"]
    ELSE [is_valid |-> TRUE, error_msg |-> ""]

\* The question of the pipeline for an accepted text.
AsQuestion(text) ==
    IF \E q \in Questions : q.text = text
    THEN CHOOSE q \in Questions : q.text = text
    ELSE [text |-> text, words |-> <<text>>, has |-> {}]

\* Request bodies: no JSON body, no question, and questions that are null, a
\* number, empty, blank, and of the lengths at and next to the two limits.
QuestionTexts ==
    {"", Pad(" ", 3), Pad(" ", MIN_QUESTION_LENGTH + 2),
     Pad("x", MIN_QUESTION_LENGTH - 1), Pad("x", MIN_QUESTION_LENGTH),
     QIceStorm.text,
     Pad("x", MAX_QUESTION_LENGTH), Pad("x", MAX_QUESTION_LENGTH + 1)}
HttpRequest(hasBody, hasQuestion, q) ==
    [has_body |-> hasBody, has_question |-> hasQuestion, question |-> q,
     options |-> NoOptions]
HttpRequests ==
    {HttpRequest(FALSE, FALSE, JAbsent), HttpRequest(TRUE, FALSE, JAbsent)}
      \cup {HttpRequest(TRUE, TRUE, q) :
               q \in {JNull, JNum(42)} \cup {JStr(t) : t \in QuestionTexts}}

\* jsonify(...), status
Response(status, err, message, body, timestamp) ==
    [status |-> status, error |-> err, message |-> message, body |-> body,
     timestamp |-> timestamp]
Responded(req, response, failures) ==
    [phase |-> "responded", request |-> req, response |-> response,
     failures |-> failures]

\* str(e) of the exception that left analyze: its own message.
ExceptionMessage(e) == e

\* The `except Exception` clause of the handler.
InternalServerError(e, t) ==
    Response(500, "Internal server error", ExceptionMessage(e), NoneValue, t)

\* The handler up to run_async(analyze(question, options)), or to the
\* response it gives without running it.
HttpReceive(req) ==
    /\ http.phase \in {"idle", "responded"}
    /\ pc \in {"idle", "returned", "failed"}
    /\ IF ~req.has_body
       THEN /\ http' = Responded(req, Response(400, "Invalid request",
                           "Request body must be JSON", NoneValue, 0),
                           http.failures)
            /\ UNCHANGED <<cmVars, plVars, ccVars, fnVars, gaVars, ieVars>>
       ELSE IF ~req.has_question
       THEN /\ http' = Responded(req, Response(400, "Missing required field",
                           "Field 'question' is required", NoneValue, 0),
                           http.failures)
            /\ UNCHANGED <<cmVars, plVars, ccVars, fnVars, gaVars, ieVars>>
       ELSE IF ValidateQuestionError(req.question) # "none"
       THEN /\ http' = Responded(req,
                           InternalServerError(
                               ValidateQuestionError(req.question), now),
                           http.failures)
            /\ UNCHANGED <<cmVars, plVars, ccVars, fnVars, gaVars, ieVars>>
       ELSE IF ~ValidateQuestion(req.question).is_valid
       THEN /\ http' = Responded(req, Response(400, "Invalid question",
                           ValidateQuestion(req.question).error_msg,
                           NoneValue, 0), http.failures)
            /\ UNCHANGED <<cmVars, plVars, ccVars, fnVars, gaVars, ieVars>>
       ELSE /\ http' = [phase |-> "running", request |-> req,
                     failures |-> http.failures]
            /\ AnalyzeEnters(AsQuestion(req.question.s), req.options)

\* run_async returns the result or lets the exception of analyze through:
\* the handler answers 200 with result.to_dict(), or 500.
HttpRespond ==
    /\ http.phase = "running"
    /\ pc \in {"returned", "failed"}
    /\ http' = IF pc = "returned"
               THEN Responded(http.request, Response(200, "", "", result, 0),
                              http.failures)
               ELSE Responded(http.request, InternalServerError(error, now),
                      http.failures \cup
                        {[error |-> InternalServerError(error, now).error,
                          message |-> InternalServerError(error, now).message]})
    /\ UNCHANGED <<cmVars, plVars, ccVars, fnVars, gaVars, ieVars>>

\* Requests one after the other (the server also handles requests in
\* parallel threads; see Part 9). Nothing cancels the task run_async runs.
HttpNext ==
    \/ \E req \in HttpRequests : HttpReceive(req)
    \/ HttpRespond
    \/ ModelTimeout
    \/ Stage1Returns(S1Good)
    \/ Stage2Completes(CHOOSE sa \in SearchAnswers : sa # <<>>, "ok")
    \/ \E r \in {S3Good, S3TextConfidence, S3NumberSeverity} :
          Stage3Returns(r)
    \/ Tick

(***************************************************************************)
(* Part 13. analyze under concurrent requests: each request thread runs     *)
(* run_async(orchestrator.analyze(question, options)) on its own event     *)
(* loop, all on the one SimpleCache. A thread's steps are the dict          *)
(* operations of cache.get, the three stages taken together (they use no   *)
(* analysis_ key), and the cache.set before the return.                     *)
(***************************************************************************)

\* The state of a thread running analyze. cold: there was no live entry for
\* its key when the call started and its cache.get read none either; ran:
\* it ran the three stages; order: the position of its cache.set among all
\* cache.set calls so far.
AnalyzeThread(q, n) ==
    [op |-> "analyze", pc |-> "get_read", question |-> q, call |-> n,
     cold |-> ~CacheLive(cache, AnalysisKey(q), now), ran |-> FALSE,
     value |-> NoneValue, ret |-> NoneValue, raised |-> "none", order |-> 0]
CallsOf(t) == IF threads[t].op = "analyze" THEN threads[t].call ELSE 0
OrderOf(t) == IF threads[t].op = "analyze" THEN threads[t].order ELSE 0
WritesSoFar ==
    LET orders == {OrderOf(t) : t \in Threads}
    IN  CHOOSE m \in orders : \A o \in orders : o <= m
AnalyzeAt(t, where) ==
    /\ threads[t].op = "analyze"
    /\ threads[t].pc = where

\* The AnalysisResult call n of thread t builds for question q.
ResultOf(t, q, n) == [query |-> q.text, built_by |-> t, call |-> n]

\* The request thread t calls analyze(q, options), up to the first dict
\* operation of cache.get, `if key in self.cache:`; without the key get
\* returns None and analyze goes on to Stage 1.
ConcurrentAnalyze(t, q) ==
    /\ threads[t].pc \in {"idle", "done", "raised"}
    /\ CallsOf(t) < MaxCalls
    /\ threads' = [threads EXCEPT ![t] =
          [AnalyzeThread(q, CallsOf(t) + 1) EXCEPT !.pc =
              IF AnalysisKey(q) \in DOMAIN cache
              THEN "get_read" ELSE "stages"]]
    /\ UNCHANGED cache

\* cache.get: `data, timestamp = self.cache[key]` and the expiry test; a
\* live entry is returned by get and, being truthy, by analyze.
LookupRead(t) ==
    /\ AnalyzeAt(t, "get_read")
    /\ LET key == AnalysisKey(threads[t].question)
       IN  threads' = [threads EXCEPT ![t] =
              IF key \notin DOMAIN cache
              THEN [@ EXCEPT !.pc = "raised", !.raised = "KeyError"]
              ELSE IF CacheLive(cache, key, now)
              THEN [@ EXCEPT !.pc = "done", !.ret = cache[key].data,
                             !.cold = FALSE]
              ELSE [@ EXCEPT !.pc = "get_del"]]
    /\ UNCHANGED cache

\* cache.get: `del self.cache[key]` of the expired branch.
LookupDelete(t) ==
    /\ AnalyzeAt(t, "get_del")
    /\ LET key == AnalysisKey(threads[t].question)
       IN  IF key \notin DOMAIN cache
           THEN /\ threads' = [threads EXCEPT ![t].pc = "raised",
                                              ![t].raised = "KeyError"]
                /\ UNCHANGED cache
           ELSE /\ threads' = [threads EXCEPT ![t].pc = "stages"]
                /\ cache' = CacheWithout(cache, key)

\* Stages 1 to 3 and the post-processing build the result.
StagesRun(t) ==
    /\ AnalyzeAt(t, "stages")
    /\ threads' = [threads EXCEPT
          ![t].pc = "set_store",
          ![t].ran = TRUE,
          ![t].value = ResultOf(t, threads[t].question, threads[t].call)]
    /\ UNCHANGED cache

\* cache.set(cache_key, result) and the return.
StoreResult(t) ==
    /\ AnalyzeAt(t, "set_store")
    /\ cache' = CacheSet(cache, AnalysisKey(threads[t].question),
                         threads[t].value, now)
    /\ threads' = [threads EXCEPT ![t].pc = "done",
                                  ![t].ret = threads[t].value,
                                  ![t].order = WritesSoFar + 1]

ConcurrentNext ==
    \/ /\ \/ \E t \in Threads, q \in Questions : ConcurrentAnalyze(t, q)
          \/ \E t \in Threads : LookupRead(t)
          \/ \E t \in Threads : LookupDelete(t)
          \/ \E t \in Threads : StagesRun(t)
          \/ \E t \in Threads : StoreResult(t)
       /\ UNCHANGED <<now, plRest, cmVars, fnVars, gaVars, hpVars, ieVars>>
    \/ Tick

(***************************************************************************)
(* Part 14. services/incident_engine.py: IncidentEngine. time.time() is    *)
(* the clock `now` of the cache.                                           *)
(***************************************************************************)

IncidentInit == active = <<>>

Towers == {"tower_1", "tower_2"}

\* duration_seconds: the default of traffic_surge and tower_outage, and one
\* step of the clock.
Durations == {15, TickSeconds}

\* The dicts the three methods hand to _set_incident.
SurgeIncident(multiplier, duration) ==
    [type |-> "TRAFFIC_SURGE", multiplier |-> multiplier,
     extra_loss_pct |-> NoneValue, duration_seconds |-> duration]
OutageIncident(duration) ==
    [type |-> "OUTAGE", multiplier |-> NoneValue,
     extra_loss_pct |-> NoneValue, duration_seconds |-> duration]
LossIncident(extra, duration) ==
    [type |-> "LOSS_SPIKE", multiplier |-> NoneValue,
     extra_loss_pct |-> extra, duration_seconds |-> duration]

\* IncidentEngine._set_incident: the incident gets start_time = now and
\* takes the place of whatever the tower had.
StartedAt(incident, t) ==
    [type |-> incident.type, multiplier |-> incident.multiplier,
     extra_loss_pct |-> incident.extra_loss_pct,
     duration_seconds |-> incident.duration_seconds, start_time |-> t]
SetIncidentKeepsStart(a, tower, incident, t) ==
    [k \in DOMAIN a \cup {tower} |->
        IF k # tower THEN a[k]
        ELSE IF tower \in DOMAIN a
             THEN StartedAt(incident, a[tower].start_time)
             ELSE StartedAt(incident, t)]
SetIncident(a, tower, incident, t) ==
    [k \in DOMAIN a \cup {tower} |->
        IF k = tower THEN StartedAt(incident, t) ELSE a[k]]

\* IncidentEngine.get_incident: is the incident of the tower expired?
IncidentExpired(a, tower, t) ==
    /\ tower \in DOMAIN a
    /\ t - a[tower].start_time > a[tower].duration_seconds

\* IncidentEngine.get_incident: the value returned, and the dict afterwards.
GetIncidentReturns(a, tower, t) ==
    IF tower \in DOMAIN a /\ ~IncidentExpired(a, tower, t)
    THEN a[tower] ELSE NoneValue
ActiveAfterGet(a, tower, t) ==
    IF IncidentExpired(a, tower, t)
    THEN [k \in DOMAIN a \ {tower} |-> a[k]]
    ELSE a

\* traffic_surge, tower_outage or loss_spike on a tower (held: the tower
\* had an incident in the dict when the method was called).
StartIncident(method, tower, incident) ==
    /\ active' = SetIncident(active, tower, incident, now)
    /\ applied' = [fn |-> method, tower |-> tower, at |-> now,
                   incident |-> incident, returned |-> NoneValue,
                   held |-> tower \in DOMAIN active]
TrafficSurge(tower, duration) ==
    StartIncident("traffic_surge", tower, SurgeIncident(2, duration))
TowerOutage(tower, duration) ==
    StartIncident("tower_outage", tower, OutageIncident(duration))
LossSpike(tower, duration) ==
    StartIncident("loss_spike", tower, LossIncident(8, duration))

\* get_incident(tower)
GetIncident(tower) ==
    /\ active' = ActiveAfterGet(active, tower, now)
    /\ applied' = [fn |-> "get_incident", tower |-> tower, at |-> now,
                   incident |-> NoneValue,
                   returned |-> GetIncidentReturns(active, tower, now),
                   held |-> tower \in DOMAIN active]

IncidentNext ==
    \/ /\ \/ \E tower \in Towers, d \in Durations : TrafficSurge(tower, d)
          \/ \E tower \in Towers, d \in Durations : TowerOutage(tower, d)
          \/ \E tower \in Towers, d \in Durations : LossSpike(tower, d)
          \/ \E tower \in Towers : GetIncident(tower)
       /\ UNCHANGED <<cmVars, plVars, ccVars, gaVars, hpVars>>
    \/ Tick

Init ==
    /\ ClientInit /\ PipelineInit /\ ThreadsInit /\ AppliedInit
    /\ GatherInit /\ HttpInit /\ IncidentInit

HttpSpec == Init /\ [][HttpNext]_vars

JoinSpec == Init /\ [][JoinNext]_vars


DedupSpec == Init /\ [][DedupNext]_vars

FilterSpec == Init /\ [][FilterNext]_vars

OrderSpec == Init /\ [][OrderNext]_vars

ImpactSpec == Init /\ [][ImpactNext]_vars

FallbackSpec == Init /\ [][FallbackNext]_vars

TtlSpec == Init /\ [][TtlNext]_vars

ConcurrentSpec == Init /\ [][ConcurrentNext]_vars

IncidentSpec == Init /\ [][IncidentNext]_vars

RedactSpec == Init /\ [][RedactNext]_vars


CacheSpec == Init /\ [][CacheNext]_vars


Spec == Init /\ [][Next]_vars

\* Repeated analyze calls, one after the other, with a well-formed Stage 1
\* output and a Stage 3 output that parses or does not.
RepeatNext ==
    \/ \E q \in Questions, opts \in OptionsSet : AnalyzeStart(q, opts)
    \/ ModelTimeout
    \/ Stage1Returns(S1Good)
    \/ \E pa \in ProviderAnswers :
          Stage2Completes(CHOOSE sa \in SearchAnswers : sa # <<>>, pa)
    \/ \E r \in {S3Empty, S3Good} : Stage3Returns(r)
    \/ \E wd \in BOOLEAN, pa \in ProviderAnswers : AnalyzeCancelled(wd, pa)
    \/ Tick

RepeatSpec == Init /\ [][RepeatNext]_vars

\* The caller changes the AnalysisResult it was returned (here: it empties
\* the events list). cache.set stored a reference to that same object and a
\* hit returns the stored reference, so the cached entry changes with it.
CallerMutates ==
    /\ pc = "returned"
    /\ result.events # <<>>
    /\ result' = [result EXCEPT !.events = <<>>]
    /\ cache' = IF AnalysisKey(question) \in DOMAIN cache
                THEN [cache EXCEPT ![AnalysisKey(question)].data = result']
                ELSE cache
    /\ UNCHANGED <<now, pc, question, options, event_metadata,
                   intelligence_data, error, cache_hit, model_calls,
                   search_calls, weather_calls, stage1_path, stage3_path,
                   prev, calls, cmVars, ccVars, fnVars, gaVars, hpVars, ieVars>>

\* Repeated analyze calls whose caller may change the result it holds.
AliasNext ==
    \/ RepeatNext
    \/ CallerMutates

AliasSpec == Init /\ [][AliasNext]_vars

ClientNext ==
    \/ \E mr \in 1..MaxRetries : CallModel(mr)
    \/ \E kind \in AttemptKinds \ {"ok"} : Attempt(kind, "")
    \/ \E text \in Texts : Attempt("ok", text)
    \/ SleepDone
    \/ SleepCancelled

ClientSpec == Init /\ [][ClientNext]_vars

\* Every request ends (aiohttp.ClientTimeout(total=...) bounds it) and every
\* asyncio.sleep(backoff) that is not cancelled completes.
AttemptEnds ==
    \/ \E kind \in AttemptKinds \ {"ok"} : Attempt(kind, "")
    \/ \E text \in Texts : Attempt("ok", text)
ClientFairSpec ==
    Init /\ [][ClientNext]_vars /\ WF_vars(AttemptEnds) /\ WF_vars(SleepDone)

(***************************************************************************)
(* Properties of the retrying client, checked under ClientSpec.            *)
(***************************************************************************)

\* call_model has ended, by a return or by an exception.
CallModelDone == cm_pc \in {"returned", "raised"}

\* Every attempt made failed, and all max_retries attempts were made.
AllAttemptsFailed ==
    /\ Len(outcomes) > 0
    /\ Len(outcomes) = max_retries
    /\ \A i \in 1..Len(outcomes) : outcomes[i].kind \in FailureKinds

\* Number of inter-attempt delays call_model slept.
DelayCount == Cardinality({i \in 1..Len(gaps) : gaps[i] > 0})

\* C7: every failed attempt that is followed by another attempt is separated
\* from it by a backoff delay of 2^attempt seconds (attempt counted from 0),
\* whatever the failure was.
C7_BackoffAfterEveryFailure ==
    \A i \in 1..Len(outcomes) :
        (i < Len(outcomes) /\ outcomes[i].kind \in FailureKinds)
            => gaps[i] = Pow2(i - 1)

\* C8: a call whose first two attempts fail and whose third attempt succeeds
\* returns the third attempt's text and performs exactly 2 inter-attempt
\* delays, the second at least as long as the first.
C8_TwoFailuresThenSuccess ==
    (/\ cm_pc = "returned"
     /\ Len(outcomes) = 3
     /\ outcomes[1].kind \in FailureKinds
     /\ outcomes[2].kind \in FailureKinds
     /\ outcomes[3].kind = "ok")
        => /\ cm_result = outcomes[3].text
           /\ DelayCount = 2
           /\ gaps[1] > 0
           /\ gaps[2] >= gaps[1]

\* C9: when all max_retries attempts fail and every failure is a timeout,
\* call_model raises ModelTimeoutError and returns nothing; and
\* ModelTimeoutError is raised only after the last attempt was made.
C9_AllTimeoutsRaiseModelTimeout ==
    /\ (AllAttemptsFailed
        /\ \A i \in 1..Len(outcomes) : outcomes[i].kind = "timeout")
           => /\ cm_pc = "raised"
              /\ cm_error = "ModelTimeoutError"
              /\ cm_result = ""
    /\ cm_error = "ModelTimeoutError"
           => /\ cm_pc = "raised"
              /\ Len(outcomes) = max_retries
              /\ requests = max_retries

\* C9 witness: three attempts, three timeouts, two backoffs, then the raise.
C9_Witness ==
    /\ cm_pc = "raised"
    /\ cm_error = "ModelTimeoutError"
    /\ max_retries = 3
    /\ [i \in 1..3 |-> outcomes[i].kind] = <<"timeout", "timeout", "timeout">>
    /\ gaps = <<1, 2, 0>>

\* C10: when all max_retries attempts fail and the failures are not all
\* timeouts, call_model returns the empty string and does not raise.
C10_MixedFailuresReturnEmpty ==
    (/\ CallModelDone
     /\ AllAttemptsFailed
     /\ \E i \in 1..Len(outcomes) : outcomes[i].kind # "timeout")
        => /\ cm_pc = "returned"
           /\ cm_result = ""
           /\ cm_error = "none"

\* C12: a cancellation of call_model, while an attempt is in flight or
\* during a backoff delay, leaves call_model as a CancelledError: the
\* cancelled attempt is the last one, nothing is returned, a call that ends
\* before its last attempt without returning ended by the cancellation, and
\* after the cancellation nothing more happens in this call.
C12_CancellationPropagates ==
    /\ [](\A i \in 1..Len(outcomes) :
            outcomes[i].kind = "cancelled"
                => /\ i = Len(outcomes)
                   /\ cm_pc = "raised"
                   /\ cm_error = "CancelledError"
                   /\ cm_result = "")
    /\ []((cm_pc = "raised" /\ Len(outcomes) < max_retries)
              => cm_error = "CancelledError")
    /\ [][cm_error = "CancelledError"
              => \/ UNCHANGED cmVars
                 \/ cm_pc' = "attempt" /\ outcomes' = <<>>]_vars

\* C12 witness: the first attempt timed out and the call was cancelled in
\* the backoff delay before the second attempt.
C12_Witness ==
    /\ cm_pc = "raised"
    /\ cm_error = "CancelledError"
    /\ max_retries = 3
    /\ Len(outcomes) = 1
    /\ outcomes[1].kind = "timeout"
    /\ gaps = <<1>>
    /\ requests = 1

(***************************************************************************)
(* Properties of analyze, checked under Spec (one call, every shape of     *)
(* model output) or RepeatSpec (calls one after the other).                *)
(***************************************************************************)

\* The min_confidence and max_areas in effect for the current call.
MinConfidenceInEffect ==
    OptGet(options, "min_confidence", MIN_CONFIDENCE_THRESHOLD)
MaxAreasInEffect == OptGet(options, "max_areas", MAX_AREAS_RETURNED)

\* The current call was made with the default filters.
DefaultFilters ==
    /\ "min_confidence" \notin DOMAIN options
    /\ "max_areas" \notin DOMAIN options

\* C1: when analyze is called right after a call that returned, with the
\* same question and before the TTL has run out since that result was made,
\* the second call returns at once with the same AnalysisResult and makes no
\* model call, no evidence search and no weather fetch.
C1_CacheIdempotence ==
    [][ (/\ pc = "returned"
         /\ calls' = calls + 1
         /\ question' = question
         /\ now - result.timestamp < CACHE_TTL)
            => /\ pc' = "returned"
               /\ result' = result
               /\ cache_hit'
               /\ model_calls' = 0
               /\ search_calls' = 0
               /\ weather_calls' = 0 ]_vars

\* C1 witness: a second call with the question of the first has returned the
\* first call's result, which holds events, from the cache.
C1_Witness ==
    /\ pc = "returned"
    /\ cache_hit
    /\ prev.returned
    /\ prev.question = question
    /\ ~(prev.result = NoneYet)
    /\ result = prev.result
    /\ result.total_events > 0
    /\ model_calls = 0 /\ search_calls = 0 /\ weather_calls = 0

\* C2: every area of a returned result has confidence >= the min_confidence
\* in effect for that call, every returned event has between 1 and max_areas
\* areas, and filters_applied holds that call's max_areas and min_confidence.
C2_FiltersOfThisCall ==
    pc = "returned" =>
        /\ \A i \in 1..Len(result.events) :
              LET areas == result.events[i].affected_areas
              IN  /\ Len(areas) >= 1
                  /\ Len(areas) <= MaxAreasInEffect
                  /\ \A j \in 1..Len(areas) :
                        areas[j].confidence.n >= MinConfidenceInEffect
        /\ result.analysis_metadata.filters_applied =
              [max_areas |-> MaxAreasInEffect,
               min_confidence |-> MinConfidenceInEffect]

\* C3: when the Stage 3 output cannot be parsed, the result returned under
\* the default options holds at least one event with at least one area.
C3_FallbackYieldsAResult ==
    (pc = "returned" /\ ~cache_hit /\ stage3_path = "fallback"
     /\ DefaultFilters)
        => /\ Len(result.events) >= 1
           /\ Len(result.events[1].affected_areas) >= 1
           /\ result.total_events >= 1

\* C4: whatever text the Stage 1 model returns, analyze_query returns
\* metadata with at least 1 event and between 1 and MAX_SEARCH_QUERIES
\* search queries.
C4_MetadataNeverEmpty ==
    stage1_path # "none" =>
        /\ Len(event_metadata.events) >= 1
        /\ Len(event_metadata.search_queries) >= 1
        /\ Len(event_metadata.search_queries) <= MAX_SEARCH_QUERIES

\* C5: a model output that cannot be parsed leads Stage 1 and Stage 3 to
\* their fallback result, and no exception leaves the stage.
C5_ParseFailureNeverLeavesStage ==
    /\ stage1_path = "fallback" =>
          event_metadata = GenerateFallbackMetadata(question)
    /\ stage3_path = "fallback" =>
          /\ FallbackEventsError(event_metadata) = "none"
          /\ pc # "failed"

\* C6: whatever texts the Stage 1 and Stage 3 model calls return, analyze
\* returns an AnalysisResult: the only exceptions that leave it are the
\* model timeout and the cancellation of the call.
C6_NeverFailsOnModelOutput ==
    pc = "failed" => error \in {"ModelTimeoutError", "CancelledError"}

\* C11: a ModelTimeoutError raised by the model call of Stage 1 or Stage 3
\* leaves analyze as one failed analysis: the call has failed, no fallback
\* was applied for the stage that timed out, no later stage was started, and
\* no AnalysisResult is returned.
C11_ModelTimeoutFailsTheAnalysis ==
    error = "ModelTimeoutError" =>
        /\ pc = "failed"
        /\ result = NoneYet
        /\ stage3_path = "none"
        /\ stage1_path = "none" =>
              /\ event_metadata = NoneYet
              /\ intelligence_data = NoneYet
              /\ model_calls = 1
              /\ search_calls = 0
              /\ weather_calls = 0
        /\ stage1_path # "none" =>
              /\ ~(intelligence_data = NoneYet)
              /\ model_calls = 2

\* C11 witness: the Stage 3 model call timed out after Stages 1 and 2 had
\* completed, and the analysis failed without a result.
C11_Witness ==
    /\ pc = "failed"
    /\ error = "ModelTimeoutError"
    /\ stage1_path = "parsed"
    /\ ~(intelligence_data = NoneYet)
    /\ model_calls = 2
    /\ result = NoneYet

\* C13 as stated: after an analyze call was cancelled or failed, the cache
\* holds no entry written by that call (under Spec the call is the first
\* one, so every entry of the cache was written by it).
C13_FailedCallWritesNothing ==
    pc = "failed" => cache = <<>>

\* C13 amended: an analysis entry is in the cache only once the call has
\* returned, so a cancelled or failed call commits no result, partial or
\* whole; the only entry such a call can leave is the weather reading that
\* Stage 2 fetched and memoized for the location of its metadata.
C13_FailedCallCommitsNoResult ==
    /\ pc # "returned" =>
          \A q \in Questions : AnalysisKey(q) \notin DOMAIN cache
    /\ pc = "failed" =>
          \A k \in DOMAIN cache :
              /\ ~(event_metadata = NoneYet)
              /\ WeatherWanted(event_metadata)
              /\ k = WeatherKey(GetLocationCoordinates(event_metadata))
              /\ cache[k].data \in {RealWeather, MockWeather}

\* C13 witness: the call was cancelled while the Stage 3 model call was in
\* flight; the weather reading of Stage 2 is cached, no analysis is.
C13_Witness ==
    /\ pc = "failed"
    /\ error = "CancelledError"
    /\ model_calls = 2
    /\ weather_calls = 1
    /\ DOMAIN cache = {WeatherKey(CityCoords("toronto"))}
    /\ AnalysisKey(question) \notin DOMAIN cache

\* C15: the AnalysisResult is cached by value: when the caller changes the
\* result it was returned, the cache, and so what a later hit returns, does
\* not change. Checked under AliasSpec.
C15_CachedByValue ==
    [][(/\ pc = "returned"
        /\ pc' = "returned"
        /\ calls' = calls
        /\ result' # result) => cache' = cache]_vars

(***************************************************************************)
(* Properties of SimpleCache under concurrent requests, checked under      *)
(* CacheSpec.                                                              *)
(***************************************************************************)

\* C14: under any interleaving of get, set, delete and clear on the key K
\* no operation raises, and a get that found an expired entry never removes
\* anything but that entry: a set(K, v) that happened meanwhile stays.
C14_ConcurrentCacheIsSafe ==
    \A t \in Threads :
        /\ threads[t].raised = "none"
        /\ (threads[t].op = "get" /\ threads[t].removed # NoneValue)
              => threads[t].removed = threads[t].seen

(***************************************************************************)
(* Properties of the helper functions.                                     *)
(***************************************************************************)

\* Index of the first item of results with this url.
FirstIndexOf(results, url) ==
    CHOOSE i \in 1..Len(results) :
        /\ results[i].url = url
        /\ \A j \in 1..(i - 1) : results[j].url # url

\* C16: the deduplicated list holds each url at most once, the item kept
\* for a url is its first occurrence in the input, the kept items are in
\* input order, and every url of the input other than the empty one is
\* kept. Checked under DedupSpec.
C16_DeduplicationKeepsFirst ==
    applied.fn = "deduplicate" =>
        LET in == applied.input
            out == applied.output
        IN  /\ \A i, j \in 1..Len(out) : i # j => out[i].url # out[j].url
            /\ \A k \in 1..Len(out) :
                  /\ \E i \in 1..Len(in) : in[i].url = out[k].url
                  /\ out[k] = in[FirstIndexOf(in, out[k].url)]
            /\ \A k \in 1..(Len(out) - 1) :
                  FirstIndexOf(in, out[k].url)
                      < FirstIndexOf(in, out[k + 1].url)
            /\ \A i \in 1..Len(in) :
                  in[i].url # "" => \E k \in 1..Len(out) : out[k].url = in[i].url

\* C16 witness: of two items with the same url around an item of another
\* url, the first is kept and the second is dropped.
C16_Witness ==
    /\ applied.fn = "deduplicate"
    /\ applied.input = << Evidence("https://a", "first"),
                          Evidence("https://b", "first"),
                          Evidence("https://a", "second") >>
    /\ applied.output = << Evidence("https://a", "first"),
                           Evidence("https://b", "first") >>

(***************************************************************************)
(* Properties of Stage 2, checked under JoinSpec.                          *)
(***************************************************************************)

\* C17: Stage 2 is a full join. One evidence fetch is issued per search
\* query; no bundle exists while a fetch or the weather branch is still
\* running; and the bundle is made of the results of all fetches, with
\* total_data_points the number of its evidence items and
\* search_queries_used the search queries of the metadata.
C17_Stage2IsAFullJoin ==
    /\ gather.phase # "idle" =>
          /\ Len(gather.fetched) = Len(event_metadata.search_queries)
          /\ search_calls = Len(event_metadata.search_queries)
    /\ gather.phase \in {"running", "raised"} => intelligence_data = NoneYet
    /\ gather.phase = "joined" =>
          /\ \A i \in 1..Len(gather.fetched) : gather.fetched[i].done
          /\ gather.weather \in {"skipped", "done"}
          /\ intelligence_data.web_results =
                DeduplicateResults(Flatten(gather.fetched))
          /\ intelligence_data.total_data_points =
                Len(intelligence_data.web_results)
          /\ intelligence_data.search_queries_used =
                event_metadata.search_queries
          /\ intelligence_data.weather_data = gather.reading

\* C17 witness: five fetches and the weather branch have all completed and
\* the bundle holds the two distinct evidence items and the reading.
C17_Witness ==
    /\ gather.phase = "joined"
    /\ Len(gather.fetched) = 5
    /\ \A i \in 1..5 : gather.fetched[i].done
    /\ gather.weather = "done"
    /\ Truthy(intelligence_data.weather_data)
    /\ intelligence_data.total_data_points = 2
    /\ search_calls = 5

\* C18: weather is best-effort. The provider is asked only when the
\* metadata requires weather data; Stage 2 raises only when the location of
\* the metadata cannot be read, never because the provider failed; after a
\* fetch the branch holds the provider's reading or the synthetic one; and
\* the bundle carries that reading or none.
C18_WeatherIsBestEffort ==
    /\ weather_calls > 0 => event_metadata.requires_weather_data
    /\ gather.phase = "raised" =>
          /\ weather_calls = 0
          /\ LocationCoordinatesError(event_metadata) # "none"
    /\ (gather.phase # "idle" /\ weather_calls > 0) =>
          /\ gather.weather = "done"
          /\ gather.reading \in {RealWeather, MockWeather}
    /\ gather.phase = "joined" =>
          /\ intelligence_data.weather_data
                \in {NoneValue, RealWeather, MockWeather}
          /\ ~event_metadata.requires_weather_data =>
                intelligence_data.weather_data = NoneValue

\* C18 witness: the provider failed, and the bundle was assembled with the
\* synthetic reading.
C18_Witness ==
    /\ gather.phase = "joined"
    /\ weather_calls = 1
    /\ intelligence_data.weather_data = MockWeather
    /\ intelligence_data.total_data_points > 0

\* C19: on a cache miss the stages run strictly in order. While Stage 1 is
\* awaited there is no metadata, no search and no bundle; Stage 2 is started
\* by the step in which Stage 1 returns its metadata; the Stage 3 model call
\* is issued by the step in which Stage 2 returns its bundle; and the result
\* is built and written to the cache only by the step in which Stage 3
\* returns.
C19_StagesRunInOrder ==
    /\ [](pc = "stage1" =>
            /\ event_metadata = NoneYet /\ stage1_path = "none"
            /\ intelligence_data = NoneYet
            /\ search_calls = 0 /\ weather_calls = 0 /\ model_calls = 1)
    /\ [](pc = "stage2" =>
            /\ event_metadata # NoneYet /\ stage1_path # "none"
            /\ intelligence_data = NoneYet
            /\ weather_calls = 0 /\ model_calls = 1
            /\ stage3_path = "none")
    /\ [](pc = "stage3" =>
            /\ event_metadata # NoneYet /\ intelligence_data # NoneYet
            /\ model_calls = 2
            /\ stage3_path = "none" /\ result = NoneYet)
    /\ [][pc' = "stage2" => (pc \in {"stage1", "stage2"})]_vars
    /\ [][pc' = "stage3" => (pc \in {"stage2", "stage3"})]_vars
    /\ [][(pc' = "returned" /\ ~cache_hit') =>
            (pc \in {"stage3", "returned"})]_vars
    /\ [][(question # NoneYet /\ pc # "idle"
            /\ AnalysisKey(question) \in DOMAIN cache'
            /\ AnalysisKey(question) \notin DOMAIN cache) =>
            (/\ pc = "stage3" /\ pc' = "returned"
             /\ stage3_path' # "none"
             /\ cache'[AnalysisKey(question)].data = result')]_vars

\* C19 witness: a call on a miss went through the three stages and returned.
C19_Witness ==
    /\ pc = "returned" /\ ~cache_hit
    /\ stage1_path # "none" /\ stage3_path # "none"
    /\ event_metadata # NoneYet /\ intelligence_data # NoneYet
    /\ model_calls = 2
    /\ cache[AnalysisKey(question)].data = result

\* C20: filtering is monotonic. When the same list of events is filtered
\* again with the same max_areas and a min_confidence at least as high, or
\* with the same min_confidence and a max_areas at most as high, the number
\* of areas returned is not larger than before.
C20_FilteringIsMonotonic ==
    /\ [][(/\ applied # NothingApplied
            /\ applied'.max_areas = applied.max_areas
            /\ applied'.min_confidence >= applied.min_confidence) =>
              TotalAreas(applied'.output) <= TotalAreas(applied.output)]_vars
    /\ [][(/\ applied # NothingApplied
            /\ applied'.min_confidence = applied.min_confidence
            /\ applied'.max_areas <= applied.max_areas) =>
              TotalAreas(applied'.output) <= TotalAreas(applied.output)]_vars

\* C21: after filtering, the areas of each returned event are in descending
\* order of confidence; the areas of one confidence are the first of the
\* event's areas of that confidence, in their original order; a confidence
\* below the best ones is represented only when every better area that
\* passed min_confidence is kept; and for max_areas >= 0 the event keeps
\* min(max_areas, number of areas that passed) areas.
C21_StableDescendingOrder ==
    applied.fn = "filter" =>
      \A k \in 1..Len(applied.output) :
        LET out == applied.output[k].affected_areas
            in == (CHOOSE e \in {applied.input[i] : i \in 1..Len(applied.input)} :
                      e.event_id = applied.output[k].event_id).affected_areas
            confs == {in[i].confidence.n : i \in 1..Len(in)}
            Of(areas, c) ==
                LET Has(a) == a.confidence.n = c IN SelectSeq(areas, Has)
            Passed(a) == a.confidence.n >= applied.min_confidence
        IN  /\ \A i \in 1..Len(out) : \A j \in (i + 1)..Len(out) :
                  out[i].confidence.n >= out[j].confidence.n
            /\ \A i \in 1..Len(out) : out[i].confidence.n \in confs
            /\ \A c \in confs :
                  /\ Len(Of(out, c)) <= Len(Of(in, c))
                  /\ Of(out, c) = SubSeq(Of(in, c), 1, Len(Of(out, c)))
                  /\ c < applied.min_confidence => Of(out, c) = <<>>
                  /\ (\E c2 \in confs : c2 < c /\ Of(out, c2) # <<>>
                                         /\ c >= applied.min_confidence)
                        => Of(out, c) = Of(in, c)
            /\ applied.max_areas >= 0 =>
                  Len(out) = Min(applied.max_areas,
                                 Len(SelectSeq(in, Passed)))

\* C21 witness: an event whose lower-confidence area came first and whose
\* two areas of equal confidence were both kept, in their original order,
\* the lower one cut off by max_areas.
C21_Witness ==
    /\ applied.fn = "filter"
    /\ applied.max_areas = 2
    /\ Len(applied.input) >= 1
    /\ Len(applied.input[1].affected_areas) = 3
    /\ applied.input[1].affected_areas[1].confidence.n = 50
    /\ applied.input[1].affected_areas[2].area_name = JStr("Harbour")
    /\ applied.input[1].affected_areas[3].area_name = JStr("Downtown")
    /\ Len(applied.output) = 1
    /\ applied.output[1].affected_areas
          = SubSeq(applied.input[1].affected_areas, 2, 3)

\* C22: redaction changes the reasoning of every surviving area to the fixed
\* placeholder and nothing else: the events, their order and fields, the
\* areas of each event, their order and every other field of each area are
\* those that came out of filtering; with include_reasoning true nothing
\* changes at all.
C22_RedactionChangesOnlyReasoning ==
    applied.fn = "redact" =>
      /\ Len(applied.output) = Len(applied.input)
      /\ applied.include_reasoning => applied.output = applied.input
      /\ ~applied.include_reasoning =>
            \A i \in 1..Len(applied.input) :
              LET before == applied.input[i]
                  after == applied.output[i]
              IN  /\ [after EXCEPT !.affected_areas = <<>>]
                        = [before EXCEPT !.affected_areas = <<>>]
                  /\ Len(after.affected_areas) = Len(before.affected_areas)
                  /\ \A j \in 1..Len(before.affected_areas) :
                        /\ after.affected_areas[j].reasoning
                              = REASONING_OMITTED
                        /\ [after.affected_areas[j] EXCEPT !.reasoning = ""]
                              = [before.affected_areas[j]
                                    EXCEPT !.reasoning = ""]

\* C22 witness: two events that survived filtering were redacted.
C22_Witness ==
    /\ applied.fn = "redact"
    /\ ~applied.include_reasoning
    /\ Len(applied.input) = 2
    /\ Len(applied.input[1].affected_areas) = 2
    /\ applied.input[1].affected_areas[1].reasoning # REASONING_OMITTED
    /\ applied.output[2].affected_areas[1].reasoning = REASONING_OMITTED

\* C23: in every result analyze returns, total_events is the number of
\* events, total_affected_areas is the number of areas of all events
\* together, and every event has at least one area.
C23_CountsAreDerived ==
    pc = "returned" =>
      LET events == result.events
          areas == UNION {{<<i, j>> : j \in 1..Len(events[i].affected_areas)} :
                             i \in 1..Len(events)}
      IN  /\ result.total_events = Len(events)
          /\ result.total_affected_areas = Cardinality(areas)
          /\ \A i \in 1..Len(events) : events[i].affected_areas # <<>>

\* C23 witness: the model gave two events, filtering dropped the second one
\* with its only area and one of the three areas of the first.
C23_Witness ==
    /\ pc = "returned"
    /\ stage3_path = "parsed"
    /\ options = NoOptions
    /\ result.total_events = 1
    /\ result.total_affected_areas = 2
    /\ result.events[1].event_id = EventId(1)

\* C24: a question that is a string is accepted exactly when it is not
\* blank and has between 10 and 500 characters; a rejected question is
\* answered 400 with the reason of its rejection; and a request answered 400
\* leaves the whole pipeline state, cache and call counters included, as it
\* was.
C24_ValidationBeforePipeline ==
    /\ [](( /\ http.phase # "idle"
            /\ http.request.has_body /\ http.request.has_question
            /\ http.request.question.t = "str") =>
           LET text == http.request.question.s
               blank == \A i \in 1..Len(text) : SubSeq(text, i, i) = " "
               good == ~blank /\ Len(text) >= 10 /\ Len(text) <= 500
               rejected == /\ http.phase = "responded"
                           /\ http.response.status = 400
                           /\ http.response.error = "Invalid question"
           IN  /\ good <=> ~rejected
               /\ good => (\/ http.phase = "running"
                           \/ http.response.status \in {200, 500})
               /\ rejected =>
                     http.response.message =
                        IF blank THEN "Question cannot be empty"
                        ELSE IF Len(text) < 10
                        THEN "Question too short (minimum 10 characters)"
                        ELSE "Question too long (maximum 500 characters)")
    /\ [][(/\ http' # http
            /\ http'.phase = "responded"
            /\ http'.response.status = 400) => UNCHANGED plVars]_vars

\* C24 witness: after a request that ran the pipeline, a question of nine
\* characters is rejected as too short.
C24_Witness ==
    /\ http.phase = "responded"
    /\ http.request.question.t = "str"
    /\ Len(http.request.question.s) = 9
    /\ http.response.status = 400
    /\ http.response.message = "Question too short (minimum 10 characters)"
    /\ calls = 1
    /\ pc = "returned"

\* C25: every failed analysis is answered with the same user-visible error
\* content, whatever the internal exception was.
C25_FailuresLookAlike == Cardinality(http.failures) <= 1

\* C26: in a returned result the event ids are pairwise distinct; the event
\* the model gave in position i has the id evt_ followed by i in three
\* digits, also when events before it were dropped by filtering; and the
\* fallback event has the id evt_001.
C26_EventIdsSequentialAndDistinct ==
    (pc = "returned" /\ ~cache_hit) =>
      LET events == result.events
      IN  /\ \A k \in 1..Len(events) : \A l \in (k + 1)..Len(events) :
                events[k].event_id # events[l].event_id
          /\ stage3_path = "fallback" =>
                \A k \in 1..Len(events) : events[k].event_id = "evt_001"
          /\ stage3_path = "parsed" =>
                \A k \in 1..Len(events) :
                  \A r \in Stage3Outputs : \A i \in 1..Len(r.events) :
                    (/\ r.events[i].is_dict
                     /\ r.events[i].event_name = events[k].event_name) =>
                       events[k].event_id
                         = "evt_00" \o ToString(i)

\* C26 witness: the first of two events was dropped by filtering; the one
\* returned is the second, with the id evt_002.
C26_Witness ==
    /\ pc = "returned"
    /\ stage3_path = "parsed"
    /\ Len(result.events) = 1
    /\ result.events[1].event_name = JStr("Tower failure")
    /\ result.events[1].event_id = "evt_002"

\* C27: for every area Stage 3 produces, parsed or fallback, the latitude
\* range brackets the latitude of the centre and the longitude range
\* brackets its longitude.
C27_RangesBracketCenter ==
    applied.fn = "analyze_impact" =>
      \A k \in 1..Len(applied.output) :
        \A j \in 1..Len(applied.output[k].affected_areas) :
          LET area == applied.output[k].affected_areas[j]
          IN  /\ area.lat_range[1] <= area.center.lat * 100
              /\ area.center.lat * 100 <= area.lat_range[2]
              /\ area.long_range[1] <= area.center.long * 100
              /\ area.center.long * 100 <= area.long_range[2]

\* C28: a response that holds an area whose latitude is 0 is parsed without
\* a division by zero, and all its events and areas are converted.
C28_LatitudeZeroIsGuarded ==
    (/\ applied.fn = "analyze_impact"
     /\ applied.response.events_is_list
     /\ \E k \in 1..Len(applied.response.events) :
          /\ applied.response.events[k].is_dict
          /\ \E j \in 1..Len(applied.response.events[k].affected_areas) :
                applied.response.events[k].affected_areas[j].latitude
                    = JNum(0)) =>
      /\ applied.parse_error # "ZeroDivisionError"
      /\ applied.parse_error = "none" =>
            /\ Len(applied.output) = Len(applied.response.events)
            /\ \A k \in 1..Len(applied.output) :
                  Len(applied.output[k].affected_areas)
                    = Len(applied.response.events[k].affected_areas)

\* C30: whenever the response cannot be parsed, analyze_impact returns
\* exactly one event, evt_001, with exactly one area of confidence 0.6, as
\* many data points as the bundle has evidence items, and a non-empty
\* reasoning.
C30_FallbackIsOneEventOneArea ==
    (applied.fn = "analyze_impact" /\ applied.parse_error # "none") =>
      /\ applied.error = "none"
      /\ Len(applied.output) = 1
      /\ applied.output[1].event_id = "evt_001"
      /\ Len(applied.output[1].affected_areas) = 1
      /\ applied.output[1].affected_areas[1].confidence = JNum(60)
      /\ applied.output[1].affected_areas[1].data_points
            = JNum(Len(applied.bundle.web_results))
      /\ applied.output[1].affected_areas[1].reasoning.t = "str"
      /\ applied.output[1].affected_areas[1].reasoning.s # ""

\* C29: max_areas caps the areas of a result: after filtering with
\* max_areas = N >= 0, the events together hold at most N areas.
C29_MaxAreasCapsTheTotal ==
    (applied.fn = "filter" /\ applied.max_areas >= 0) =>
      Cardinality(UNION {{<<k, j>> :
                             j \in 1..Len(applied.output[k].affected_areas)} :
                         k \in 1..Len(applied.output)})
        <= applied.max_areas

C38_FallbackPrecedence ==
    applied.fn = "fallback_metadata" =>
      LET has == applied.question.has
          event == applied.output.events[1]
          weather == has \cap {"storm", "ice", "snow", "rain", "weather"} # {}
          power == has \cap {"power", "electricity", "grid"} # {}
          equipment == has \cap {"equipment", "tower", "failure"} # {}
          today == has \cap {"today", "now", "current"} # {}
          yesterday == "yesterday" \in has
          week == has \cap {"last week", "this week"} # {}
      IN  /\ event.event_type
                = JStr(IF weather THEN "weather_related_outage"
                       ELSE IF power THEN "power_outage"
                       ELSE IF equipment THEN "equipment_failure"
                       ELSE "unknown")
          /\ event.primary_location
                = JStr(IF "toronto" \in has THEN "Toronto"
                       ELSE IF "mississauga" \in has THEN "Mississauga"
                       ELSE IF "vancouver" \in has THEN "Vancouver"
                       ELSE IF "montreal" \in has THEN "Montreal"
                       ELSE "Toronto")
          /\ event.timeframe
                = JStr(IF today THEN "today"
                       ELSE IF yesterday THEN "yesterday"
                       ELSE IF week THEN "this week"
                       ELSE "recent")
          /\ applied.output.requires_weather_data
                <=> (event.event_type = JStr("weather_related_outage"))
C38_Witness ==
    /\ applied.fn = "fallback_metadata"
    /\ {"storm", "power"} \subseteq applied.question.has
    /\ applied.output.events[1].event_type = JStr("weather_related_outage")
    /\ applied.output.requires_weather_data = TRUE

\* C32: a get(K) returns the value of the last set(K, v) exactly when that
\* set is less than CACHE_TTL seconds old and no delete(K) or clear()
\* followed it, and None otherwise; a get that finds K expired removes
\* the entry; and analyze, which starts with such a get, returns the cached
\* result on a live entry and otherwise issues the Stage 1 model call.
C32_LiveWrite(key) ==
    /\ WrittenNow[key].written
    /\ now - WrittenNow[key].at < CACHE_TTL
C32_GetFollowsTtl ==
    [][/\ (applied' # applied /\ applied'.fn = "cache"
                             /\ applied'.op = "get") =>
            /\ applied'.returned
                  = IF C32_LiveWrite(applied'.key)
                    THEN WrittenNow[applied'.key].data ELSE NoneValue
            /\ ~C32_LiveWrite(applied'.key) =>
                  applied'.key \notin DOMAIN cache'
            /\ applied'.written = WrittenNow
       /\ (calls' = calls + 1) =>
            IF C32_LiveWrite(AnalysisKey(question'))
            THEN /\ pc' = "returned"
                 /\ result' = WrittenNow[AnalysisKey(question')].data
                 /\ model_calls' = 0
            ELSE /\ pc' = "stage1"
                 /\ model_calls' = 1
                 /\ cache_hit' = FALSE
                 /\ AnalysisKey(question') \notin DOMAIN cache']_vars
C32_Witness ==
    /\ applied.fn = "cache"
    /\ applied.op = "get"
    /\ applied.written[applied.key].written
    /\ applied.at - applied.written[applied.key].at >= CACHE_TTL
    /\ applied.returned = NoneValue
    /\ applied.key \notin DOMAIN cache
    /\ pc = "stage1"
    /\ AnalysisKey(question) = applied.key

\* C33: call_model ends for every sequence of attempt outcomes; it sends at
\* most max_retries requests, one per attempt made; only the last attempt
\* made can have returned text or been cancelled; nothing is slept after
\* attempt max_retries - 1; and it ends in exactly one of: a non-empty text
\* returned, the empty string returned, ModelTimeoutError, CancelledError.
C33_CallModelTerminates ==
    /\ [](/\ requests <= max_retries
          /\ requests = Len(outcomes)
          /\ \A i \in 1..Len(outcomes) :
                outcomes[i].kind \in {"ok", "cancelled"}
                    => i = Len(outcomes) /\ CallModelDone
          /\ Len(gaps) = max_retries /\ max_retries > 0
                => gaps[max_retries] = 0
          /\ cm_pc = "returned"
                => /\ cm_error = "none"
                   /\ cm_result \in Texts \cup {""}
                   /\ cm_result # ""
                         <=> outcomes[Len(outcomes)].kind = "ok"
                   /\ cm_result # ""
                         => cm_result = outcomes[Len(outcomes)].text
          /\ cm_pc = "raised"
                => /\ cm_error \in {"ModelTimeoutError", "CancelledError"}
                   /\ cm_result = "")
    /\ (cm_pc \in {"attempt", "sleep"}) ~> CallModelDone
C33_Witness ==
    /\ cm_pc = "returned"
    /\ max_retries = 3
    /\ requests = 2
    /\ outcomes[1].kind = "timeout"
    /\ outcomes[2].kind = "ok"
    /\ cm_result = outcomes[2].text
    /\ gaps = <<1, 0>>

\* C34: an attempt that ends in a 200 response without text is a failed
\* attempt followed by no backoff delay: the next attempt, if one is left,
\* starts at once; and when every one of the max_retries attempts ends this
\* way, call_model returns the empty string and raises nothing.
C34_EmptyTextIsAFailedAttempt ==
    /\ [](\A i \in 1..Len(outcomes) :
            outcomes[i].kind = "empty" => gaps[i] = 0)
    /\ []((AllAttemptsFailed
            /\ \A i \in 1..Len(outcomes) : outcomes[i].kind = "empty")
              => /\ cm_pc = "returned"
                 /\ cm_result = ""
                 /\ cm_error = "none")
    /\ [][(/\ Len(outcomes') = Len(outcomes) + 1
           /\ outcomes'[Len(outcomes')].kind = "empty")
              => /\ cm_pc' # "sleep"
                 /\ Len(outcomes') < max_retries
                       => cm_pc' = "attempt" /\ attempt' = attempt + 1
                 /\ Len(outcomes') = max_retries => CallModelDone']_vars
C34_Witness ==
    /\ cm_pc = "returned"
    /\ cm_result = ""
    /\ cm_error = "none"
    /\ max_retries = 3
    /\ [i \in 1..3 |-> outcomes[i].kind] = <<"empty", "empty", "empty">>
    /\ gaps = <<0, 0, 0>>

\* C35: what analyze_impact returns is either every event of the model
\* output, in the order of the output and with all its areas, or exactly
\* the one fallback event; when any area of the output cannot be converted
\* none of the parsed events is returned; a mix of the two never is.
C35_EventNameOf(eventData) ==
    IF eventData.event_name = JAbsent
    THEN JStr("Unnamed Event") ELSE eventData.event_name
C35_IsWholeOutput ==
    /\ Len(applied.output) = Len(applied.response.events)
    /\ \A k \in 1..Len(applied.output) :
          /\ applied.output[k].event_id = EventId(k)
          /\ applied.output[k].event_name
                = C35_EventNameOf(applied.response.events[k])
          /\ Len(applied.output[k].affected_areas)
                = Len(applied.response.events[k].affected_areas)
C35_IsFallbackOnly ==
    /\ Len(applied.output) = 1
    /\ applied.output[1].event_id = "evt_001"
    /\ Len(applied.output[1].affected_areas) = 1
    /\ applied.output[1].affected_areas[1].confidence
          = JNum(FALLBACK_CONFIDENCE)
    /\ applied.output[1].affected_areas[1].severity = JStr("moderate")
C35_ParsingIsAllOrNothing ==
    (applied.fn = "analyze_impact" /\ applied.error = "none") =>
      /\ applied.parse_error = "none" => C35_IsWholeOutput
      /\ applied.parse_error # "none" => C35_IsFallbackOnly
C35_Witness ==
    /\ applied.fn = "analyze_impact"
    /\ applied.error = "none"
    /\ applied.parse_error = "ZeroDivisionError"
    /\ Len(applied.response.events) = 2
    /\ Len(applied.response.events[1].affected_areas) = 2
    /\ applied.response.events[1].affected_areas[1] = AreaCritical
    /\ C35_IsFallbackOnly

\* C36: two analyze calls for the same question that both started without
\* a live entry each run the three stages and return their own result, and
\* once both have ended the cache holds the result of the one whose
\* cache.set came last; a call only ever returns a result for its own
\* question, and every entry holds a result for the question of its key.
C36_Ended(t) == threads[t].op = "analyze" /\ threads[t].pc \in {"done", "raised"}
C36_ConcurrentCallsBothRun ==
    /\ \A t, u \in Threads :
          (/\ t # u
           /\ C36_Ended(t) /\ C36_Ended(u)
           /\ threads[t].question = threads[u].question
           /\ threads[t].cold /\ threads[u].cold)
             => /\ threads[t].ran /\ threads[t].raised = "none"
                /\ threads[t].ret = threads[t].value
                /\ threads[t].order > threads[u].order
                      => /\ AnalysisKey(threads[t].question) \in DOMAIN cache
                         /\ cache[AnalysisKey(threads[t].question)].data
                               = threads[t].value
    /\ \A t \in Threads :
          (threads[t].op = "analyze" /\ threads[t].ret # NoneValue)
             => threads[t].ret.query = threads[t].question.text
    /\ \A q \in Questions :
          AnalysisKey(q) \in DOMAIN cache
             => cache[AnalysisKey(q)].data.query = q.text

\* C37: the deduplicated list holds no item without a url, so the bundle
\* holds none and total_data_points does not count them; the list is a
\* subsequence of the input; and deduplicating it again changes nothing.
RECURSIVE C37_IsSubsequence(_, _)
C37_IsSubsequence(out, in) ==
    IF out = <<>> THEN TRUE
    ELSE IF in = <<>> THEN FALSE
    ELSE IF Head(out) = Head(in)
         THEN C37_IsSubsequence(Tail(out), Tail(in))
         ELSE C37_IsSubsequence(out, Tail(in))
C37_DeduplicationDropsMissingUrls ==
    applied.fn = "deduplicate" =>
      /\ \A k \in 1..Len(applied.output) : applied.output[k].url # ""
      /\ \A k \in 1..Len(applied.bundle.web_results) :
            applied.bundle.web_results[k].url # ""
      /\ applied.bundle.total_data_points
            = Cardinality({applied.input[i].url :
                              i \in 1..Len(applied.input)} \ {""})
      /\ C37_IsSubsequence(applied.output, applied.input)
      /\ DeduplicateResults(applied.output) = applied.output
C37_Witness ==
    /\ applied.fn = "deduplicate"
    /\ applied.input = << Evidence("", "first"),
                          Evidence("https://a", "first"),
                          Evidence("", "second") >>
    /\ applied.output = << Evidence("https://a", "first") >>
    /\ applied.bundle.total_data_points = 1

\* C39: traffic_surge, tower_outage and loss_spike put their incident in
\* the place of the tower's incident, started now, and change no other
\* tower; get_incident returns the tower's incident while now - start_time
\* is at most duration_seconds and changes nothing, and after that returns
\* None and removes that incident only.
C39_OthersUnchanged(tower) ==
    /\ DOMAIN active' \ {tower} = DOMAIN active \ {tower}
    /\ \A k \in DOMAIN active \ {tower} : active'[k] = active[k]
C39_OneIncidentPerTower ==
    [][/\ (applied' # applied /\ applied'.fn \in {"traffic_surge",
                                   "tower_outage", "loss_spike"}) =>
            LET tower == applied'.tower
            IN  /\ tower \in DOMAIN active'
                /\ active'[tower].type = applied'.incident.type
                /\ active'[tower].duration_seconds
                      = applied'.incident.duration_seconds
                /\ active'[tower].start_time = now
                /\ C39_OthersUnchanged(tower)
       /\ (applied' # applied /\ applied'.fn = "get_incident") =>
            LET tower == applied'.tower
                held == tower \in DOMAIN active
            IN  /\ C39_OthersUnchanged(tower)
                /\ ~held => applied'.returned = NoneValue /\ active' = active
                /\ (held /\ now - active[tower].start_time
                                <= active[tower].duration_seconds)
                      => applied'.returned = active[tower] /\ active' = active
                /\ (held /\ now - active[tower].start_time
                                > active[tower].duration_seconds)
                      => /\ applied'.returned = NoneValue
                         /\ tower \notin DOMAIN active']_vars
C39_Witness ==
    /\ applied.fn = "get_incident"
    /\ applied.held
    /\ applied.returned = NoneValue
    /\ applied.tower = "tower_1"
    /\ "tower_1" \notin DOMAIN active
    /\ "tower_2" \in DOMAIN active
    /\ active["tower_2"].type = "OUTAGE"
    /\ active["tower_2"].start_time = TickSeconds
    /\ now = 2 * TickSeconds

====
